---- MODULE Spec2Model ----
(***************************************************************************)
(* A model of the LLM-TXT export server (src/server/src/index.ts): the     *)
(* sliding-window rate limiter, the pricing engine, the estimate and       *)
(* payment-gate paths, the paginating source adapters, the Git tree filter  *)
(* and formatter, and the RSS parser.                                      *)
(***************************************************************************)
EXTENDS Integers, Sequences, FiniteSets, TLC

VARIABLES
    now,               \* Date.now(), in milliseconds
    globalRequests,    \* RateLimiter.globalRequests: number[]
    endpointRequests,  \* RateLimiter.endpointRequests: Map<string, number[]>
    callers,           \* each caller of waitForSlot: where it stands
    calls,             \* waitForSlot calls started so far
    ticks,             \* clock advances so far
    pin,               \* the arguments handed to a pure function
    pout,              \* what the function returned
    req,               \* a request: its query string, the environment, the upstream
    cache,             \* const cache = new Map<string, { data, expiry }>()
    est,               \* the response of the estimate endpoint to req
    gate,              \* what the payment middleware did with req
    freq,              \* an export request, with the feed the upstream holds
    fpc,               \* where the export stands
    allCasts,          \* allCasts / allPosts: the units collected so far
    cursor,            \* the cursor of the next page (0: undefined)
    parentHashes,      \* parentHashes / parentUris: the distinct parent references
    batchAt,           \* i of the batch loop
    lookups,           \* each parent lookup: not started, pending, or its outcome
    parentMap,         \* the parent references that resolved to a unit
    fres,              \* the response of the export handler
    trace,             \* what the export route did so far, in order
    cachedPricing,     \* usePricing: let cachedPricing: PricingData | null
    cachePromise,      \* usePricing: let cachePromise, the promise it refers to (0: null)
    promises,          \* the state of each promise a /pricing request created
    hooks              \* each usePricing hook: where it stands and its state

limiterVars == <<now, globalRequests, endpointRequests, callers, calls, ticks>>
pricingVars == <<pin, pout>>
quoteVars == <<req, cache, est, gate>>
fetchVars ==
    <<freq, fpc, allCasts, cursor, parentHashes, batchAt, lookups, parentMap, fres, trace>>

hookVars == <<cachedPricing, cachePromise, promises, hooks>>

vars == <<limiterVars, pricingVars, quoteVars, fetchVars, hookVars>>

-----------------------------------------------------------------------------
(* Bounds of the model.                                                    *)

NumCallers == 2
MaxCalls == 3
MaxTicks == 2
NumHooks == 3
MaxRequests == 2

-----------------------------------------------------------------------------
(* Numbers.  A JavaScript number that a query can set (a limit, an item    *)
(* count, a cast count) is a record: t says whether it is a number, NaN,   *)
(* undefined or null, and h holds twice its value, so that h = 5 is 2.5.   *)
(* A cost is an integer number of tenths of a micro-dollar (10^-7 $); a    *)
(* price string "$x" is the pair <<"$", x in micro-dollars>>.              *)

Num(x) == [t |-> "num", h |-> 2 * x]
Half(h) == [t |-> "num", h |-> h]
NaN == [t |-> "nan", h |-> 0]
Undefined == [t |-> "undefined", h |-> 0]
Null == [t |-> "null", h |-> 0]

\* x || d, for a number-or-undefined x: 0, NaN, undefined and null are falsy.
OrDefault(x, d) == IF x.t = "num" /\ x.h # 0 THEN x.h ELSE 2 * d

\* Math.ceil(n / d) for d > 0.
Ceil(n, d) == IF n % d = 0 THEN n \div d ELSE (n \div d) + 1

Max(a, b) == IF a >= b THEN a ELSE b

\* Math.round(cost * 1000000) / 1000000: a cost to the nearest micro-dollar,
\* a half rounding up.
Round6(cost) == (cost + 5) \div 10

\* `$${rounded}`
Dollar(micros) == <<"$", micros>>

\* parseFloat(price.replace("$", "")): a price string back to a cost.
parseDollarPrice(price) == price[2] * 10

-----------------------------------------------------------------------------
(* Farcaster and Bluesky pricing, index.ts 36-211.                         *)

\* index.ts 45-50
FREE_TIER == [maxLimit |-> 10, allowReplies |-> FALSE, allowParents |-> FALSE,
              allowAll |-> FALSE]

\* index.ts 54-76: perApiCall 0.001 $ in cost units; the parent ratios 0.6
\* and 0.1 in tenths; the multipliers 1.25 and 1.1 in hundredths.
PRICING == [perApiCall |-> 10000, castsPerPage |-> 150, fetchAllDefaultPages |-> 50,
            fetchAllBuffer |-> 5, parentRatioWithReplies |-> 6,
            parentRatioWithoutReplies |-> 1, repliesDataMultiplier |-> 125,
            reactionsDataMultiplier |-> 110]

\* isFreeTier with a fault: >= where the code has >.
isFreeTier_atMax(params) ==
    LET limit == OrDefault(params.limit, 50)
    IN  /\ ~(limit >= 2 * FREE_TIER.maxLimit)
        /\ ~params.all
        /\ ~params.includeReplies
        /\ ~params.includeParents

\* isFreeTier with a fault: < where the code has >.
isFreeTier_inverted(params) ==
    LET limit == OrDefault(params.limit, 50)
    IN  /\ ~(limit < 2 * FREE_TIER.maxLimit)
        /\ ~params.all
        /\ ~params.includeReplies
        /\ ~params.includeParents

\* function isFreeTier(params), index.ts 81-91
isFreeTier(params) ==
    LET limit == OrDefault(params.limit, 50)
    IN  /\ ~(limit > 2 * FREE_TIER.maxLimit)
        /\ ~params.all
        /\ ~params.includeReplies
        /\ ~params.includeParents

\* The cast pages of a request: Math.ceil(requestedLimit / castsPerPage).
castPages(requestedLimit) == Ceil(requestedLimit, 2 * PRICING.castsPerPage)

\* Math.ceil(requestedLimit * parentRatio), index.ts 187-190
estimatedParentCalls(requestedLimit, includeReplies) ==
    LET parentRatio == IF includeReplies THEN PRICING.parentRatioWithReplies
                       ELSE PRICING.parentRatioWithoutReplies
    IN  Ceil(requestedLimit * parentRatio, 20)

\* floorAtBase with a fault: Math.min where the code has Math.max.
floorAtBase_min(cost, basePrice) == IF cost <= basePrice THEN cost ELSE basePrice

\* cost = Math.max(cost, basePrice), index.ts 206
floorAtBase(cost, basePrice) == Max(cost, basePrice)

\* function calculateDynamicPriceWithCastCount(params, castCount, basePrice),
\* index.ts 157-211.  The cost of whole API calls is a multiple of 100 units,
\* and so is that cost times 1.25: the divisions by 100 are exact.
calculateDynamicPriceWithCastCount(params, castCount, basePrice) ==
    IF isFreeTier(params) THEN Dollar(0)
    ELSE
    LET requestedLimit ==
            IF params.all
            THEN (IF castCount.t # "null" THEN castCount.h
                  ELSE 2 * PRICING.fetchAllDefaultPages * PRICING.castsPerPage)
            ELSE OrDefault(params.limit, 50)
        apiCalls == castPages(requestedLimit)
                    + (IF params.all THEN PRICING.fetchAllBuffer ELSE 0)
                    + (IF params.includeParents
                       THEN estimatedParentCalls(requestedLimit, params.includeReplies)
                       ELSE 0)
        cost0 == apiCalls * PRICING.perApiCall
        cost1 == IF params.includeReplies
                 THEN (cost0 \div 100) * PRICING.repliesDataMultiplier ELSE cost0
        cost2 == IF params.includeReactions
                 THEN (cost1 \div 100) * PRICING.reactionsDataMultiplier ELSE cost1
    IN  Dollar(Round6(floorAtBase(cost2, basePrice)))

-----------------------------------------------------------------------------
(* RSS pricing, index.ts 1433-1466.                                        *)

\* index.ts 1433-1438: baseFetch 0.0005 $ and perItem 0.00005 $ in cost
\* units, contentMultiplier 1.5 in hundredths.
RSS_PRICING == [baseFetch |-> 5000, perItem |-> 500, contentMultiplier |-> 150,
                freeTierMaxItems |-> 5]

\* function isRssFreeTier(params), index.ts 1446-1451
isRssFreeTier(params) ==
    /\ ~params.all
    /\ ~params.includeContent
    /\ OrDefault(params.itemCount, 10) <= 2 * RSS_PRICING.freeTierMaxItems

\* function calculateRssPrice(params, basePrice), index.ts 1453-1466
calculateRssPrice(params, basePrice) ==
    IF isRssFreeTier(params) THEN Dollar(0)
    ELSE
    LET itemCount == OrDefault(params.itemCount, 10)
        cost0 == RSS_PRICING.baseFetch + (itemCount * RSS_PRICING.perItem) \div 2
        cost1 == IF params.includeContent
                 THEN (cost0 * RSS_PRICING.contentMultiplier) \div 100 ELSE cost0
    IN  Dollar(Round6(floorAtBase(cost1, basePrice)))

-----------------------------------------------------------------------------
(* Git pricing, index.ts 1924-1990.  Sizes are whole numbers here: a       *)
(* repository size in KB, a file count, maxFileSize in bytes (0: not       *)
(* given); an estimate of the output is held in thousandths of a KB.       *)

\* index.ts 1924-1931: the prices in cost units.
GIT_PRICING == [baseRequest |-> 5000, perKB |-> 500, perFileListed |-> 50,
                minPrice |-> 1000, freeTierMaxKB |-> 10, freeTierMaxFiles |-> 10]

\* function isGitFreeTier(params), index.ts 1944-1948
isGitFreeTier(params) ==
    /\ ~params.includeContent
    /\ ~(params.includeTree /\ params.fileCount > GIT_PRICING.freeTierMaxFiles)

\* The content estimate of index.ts 1963-1979, in thousandths of a KB: 30 % of
\* the repository, 20 % of that with include patterns, 70 % with exclude
\* patterns, and Math.max(0.1, maxFileSize / 100000) of that for a maxFileSize
\* under 100000.  Exact for repository sizes in multiples of 500 KB and
\* maxFileSize in multiples of 100 bytes, the ones the model draws.
contentEstimate(params) ==
    LET c0 == params.repoSize * 300
        c1 == IF params.includePatterns THEN (c0 * 2) \div 10 ELSE c0
        c2 == IF params.excludePatterns THEN (c1 * 7) \div 10 ELSE c1
    IN  IF params.maxFileSize # 0 /\ params.maxFileSize < 100000
        THEN ((c2 \div 100) * (Max(10000, params.maxFileSize) \div 100)) \div 10
        ELSE c2

\* function calculateGitPrice(params, basePrice), index.ts 1950-1990
calculateGitPrice(params, basePrice) ==
    IF isGitFreeTier(params) THEN Dollar(0)
    ELSE
    LET estimatedKB ==
            IF params.estimatedOutputKB # 0 THEN params.estimatedOutputKB * 1000
            ELSE 5000
                 + (IF params.includeTree THEN params.fileCount * 50 ELSE 0)
                 + (IF params.includeContent THEN contentEstimate(params) ELSE 0)
        cost == GIT_PRICING.baseRequest + (estimatedKB * GIT_PRICING.perKB) \div 1000
    IN  Dollar(Round6(Max(floorAtBase(cost, basePrice), GIT_PRICING.minPrice)))

-----------------------------------------------------------------------------
(* The pricing functions applied to drawn arguments.                       *)

\* Limits and item counts: absent, not a number, negative, zero, fractional,
\* and whole numbers around the free-tier maxima and the page size.
LimitValues == {Undefined, NaN, Num(-5), Num(0), Half(1), Num(1), Num(5), Half(11),
                Num(6), Num(10), Half(21), Num(11), Num(50), Num(150), Num(151),
                Num(500)}

\* Pairs of limits to compare: the same limit twice, or two numbers in order.
LimitPairs == {lp \in LimitValues \X LimitValues :
                 \/ lp[1] = lp[2]
                 \/ lp[1].t = "num" /\ lp[2].t = "num" /\ lp[1].h < lp[2].h}

\* Parsed base prices, in cost units: $0.001 (the default), $0, $0.0000004,
\* $0.0000005, $0.0010004 and $0.0025.
BasePrices == {10000, 0, 4, 5, 10004, 25000}

CastCounts == {Null, Num(0), Num(100), Num(7500)}

NoInput == [source |-> "none"]
NoOutput == [done |-> FALSE, free |-> FALSE, price |-> Dollar(0),
             free2 |-> FALSE, price2 |-> Dollar(0)]

SocialInputs ==
    {[source |-> "social", limit |-> lp[1], limit2 |-> lp[2], all |-> fl[1],
      includeReplies |-> fl[2], includeParents |-> fl[3], includeReactions |-> fl[4],
      castCount |-> cc, basePrice |-> bp] :
        lp \in LimitPairs, fl \in BOOLEAN \X BOOLEAN \X BOOLEAN \X BOOLEAN,
        cc \in CastCounts, bp \in BasePrices}

RssInputs ==
    {[source |-> "rss", limit |-> lp[1], limit2 |-> lp[2], all |-> fl[1],
      includeContent |-> fl[2], basePrice |-> bp] :
        lp \in LimitPairs, fl \in BOOLEAN \X BOOLEAN, bp \in BasePrices}

GitInputs ==
    {[source |-> "git", includeContent |-> fl[1], includeTree |-> fl[2],
      includePatterns |-> fl[3], excludePatterns |-> fl[4], fileCount |-> sz[1],
      repoSize |-> sz[2], maxFileSize |-> sz[3], estimatedOutputKB |-> sz[4],
      basePrice |-> bp] :
        fl \in BOOLEAN \X BOOLEAN \X BOOLEAN \X BOOLEAN,
        sz \in {0, 10, 11, 1000} \X {0, 500, 10000} \X {0, 500, 50000, 100000} \X {0, 40},
        bp \in BasePrices}

\* The PricingParams object of the drawn arguments, with the given limit.
SocialParams(i, limit) ==
    [limit |-> limit, all |-> i.all, includeReplies |-> i.includeReplies,
     includeParents |-> i.includeParents, includeReactions |-> i.includeReactions]

RssParams(i, itemCount) ==
    [itemCount |-> itemCount, includeContent |-> i.includeContent, all |-> i.all]

GitParams(i) ==
    [includeContent |-> i.includeContent, includeTree |-> i.includeTree,
     includePatterns |-> i.includePatterns, excludePatterns |-> i.excludePatterns,
     fileCount |-> i.fileCount, repoSize |-> i.repoSize,
     maxFileSize |-> i.maxFileSize, estimatedOutputKB |-> i.estimatedOutputKB]

\* isFreeTier and calculateDynamicPriceWithCastCount on the drawn arguments,
\* for the first and for the second limit.
PriceSocial ==
    /\ pin.source = "social" /\ ~pout.done
    /\ pout' = [done |-> TRUE,
                free |-> isFreeTier(SocialParams(pin, pin.limit)),
                price |-> calculateDynamicPriceWithCastCount(
                              SocialParams(pin, pin.limit), pin.castCount, pin.basePrice),
                free2 |-> isFreeTier(SocialParams(pin, pin.limit2)),
                price2 |-> calculateDynamicPriceWithCastCount(
                              SocialParams(pin, pin.limit2), pin.castCount, pin.basePrice)]
    /\ UNCHANGED <<hookVars, pin, limiterVars, quoteVars, fetchVars>>

\* isRssFreeTier and calculateRssPrice on the drawn arguments.
PriceRss ==
    /\ pin.source = "rss" /\ ~pout.done
    /\ pout' = [done |-> TRUE,
                free |-> isRssFreeTier(RssParams(pin, pin.limit)),
                price |-> calculateRssPrice(RssParams(pin, pin.limit), pin.basePrice),
                free2 |-> isRssFreeTier(RssParams(pin, pin.limit2)),
                price2 |-> calculateRssPrice(RssParams(pin, pin.limit2), pin.basePrice)]
    /\ UNCHANGED <<hookVars, pin, limiterVars, quoteVars, fetchVars>>

\* function calculateDynamicPrice(params, basePrice), index.ts 101-148: line
\* for line calculateDynamicPriceWithCastCount with no cast count at hand.
calculateDynamicPrice(params, basePrice) ==
    calculateDynamicPriceWithCastCount(params, Null, basePrice)

\* The examples of app.get("/pricing"), index.ts 949-1010: the count its
\* description names and the cost it states.
pricingExamples ==
    [farcaster |-> <<[count |-> 50, cost |-> Dollar(1000)],
                     [count |-> 500, cost |-> Dollar(4000)],
                     [count |-> 5000, cost |-> Dollar(34000)]>>,
     bluesky |-> <<[count |-> 50, cost |-> Dollar(1000)],
                   [count |-> 500, cost |-> Dollar(4000)],
                   [count |-> 5000, cost |-> Dollar(34000)]>>,
     rss |-> <<[count |-> 10, cost |-> Dollar(1000)],
               [count |-> 50, cost |-> Dollar(3000)],
               [count |-> 100, cost |-> Dollar(6000)]>>]

\* One example of the response, with the default base price "$0.001".
ExampleInputs ==
    [source : {"examples"}, route : {"farcaster", "bluesky", "rss"}, index : 1..3,
     basePrice : {10000}]

\* The cost function of the example's source on the example's count, with no
\* optional feature.
PriceExample ==
    /\ pin.source = "examples" /\ ~pout.done
    /\ LET example == pricingExamples[pin.route][pin.index]
           price == IF pin.route = "rss"
                    THEN calculateRssPrice(
                             [itemCount |-> Num(example.count), includeContent |-> FALSE,
                              all |-> FALSE], pin.basePrice)
                    ELSE calculateDynamicPrice(
                             [limit |-> Num(example.count), all |-> FALSE,
                              includeReplies |-> FALSE, includeParents |-> FALSE,
                              includeReactions |-> FALSE], pin.basePrice)
       IN  pout' = [done |-> TRUE, free |-> price = Dollar(0), price |-> price,
                    free2 |-> price = Dollar(0), price2 |-> price,
                    listed |-> example.cost]
    /\ UNCHANGED <<hookVars, pin, limiterVars, quoteVars, fetchVars>>

\* isGitFreeTier and calculateGitPrice on the drawn arguments.
PriceGit ==
    /\ pin.source = "git" /\ ~pout.done
    /\ pout' = [done |-> TRUE,
                free |-> isGitFreeTier(GitParams(pin)),
                price |-> calculateGitPrice(GitParams(pin), pin.basePrice),
                free2 |-> isGitFreeTier(GitParams(pin)),
                price2 |-> calculateGitPrice(GitParams(pin), pin.basePrice)]
    /\ UNCHANGED <<hookVars, pin, limiterVars, quoteVars, fetchVars>>

-----------------------------------------------------------------------------
(* Query strings and the cache, index.ts 231-244.  A query parameter is a  *)
(* string, or Absent when the query string does not carry it.              *)

Absent == "<absent>"

\* JavaScript truthiness of a query parameter: present and not empty.
Truthy(s) == s # Absent /\ s # ""

\* JavaScript truthiness of a number.
TruthyNum(x) == x.t = "num" /\ x.h # 0

\* String(x): an absent parameter is undefined and reads "undefined".
StringOf(s) == IF s = Absent THEN "undefined" ELSE s

\* s.toLowerCase(), on the spellings the model draws.
toLowerCase(s) ==
    CASE s = "TRUE" -> "true"
      [] s = "True" -> "true"
      [] OTHER -> s

\* Number(s), on the limit strings the model draws.
NumberOf(s) ==
    CASE s = "" -> Num(0)
      [] s = "0" -> Num(0)
      [] s = "2" -> Num(2)
      [] s = "2.5" -> Half(5)
      [] s = "-1" -> Num(-1)
      [] s = "5" -> Num(5)
      [] s = "11" -> Num(11)
      [] s = "120" -> Num(120)
      [] s = "50000" -> Num(50000)
      [] OTHER -> NaN

\* query.limit ? Number(query.limit) : undefined, index.ts 839 and 1027
limitOf(s) == IF Truthy(s) THEN NumberOf(s) ELSE Undefined

\* c.req.query("all") === "true", index.ts 1028-1031
strictFlag(s) == s = "true"

\* String(query.all).toLowerCase() === "true", index.ts 840-843
lenientFlag(s) == toLowerCase(StringOf(s)) = "true"

\* The one user of the upstream: alice, fid 2.
CacheKeys == {"user:alice", "storage:2", "fid:alice", "bsky:did:alice.bsky.social"}
userKey(username) == CASE username = "alice" -> "user:alice"
storageKey(fid) == CASE fid = Num(2) -> "storage:2"
parseInt(s) == CASE s = "2" -> Num(2) [] s = "0" -> Num(0) [] OTHER -> NaN

NoEntry == [set |-> FALSE, data |-> Null, expiry |-> 0]
EmptyCache == [k \in CacheKeys |-> NoEntry]

\* Expired with a fault: an entry is kept for as long as it is in the map.
Expired_never(c, key, t) == ~c[key].set

\* !item || Date.now() > item.expiry, index.ts 235
Expired(c, key, t) == ~c[key].set \/ t > c[key].expiry

\* function getCached(key), index.ts 233-240: what it returns ...
getCached(c, key, t) == IF Expired(c, key, t) THEN Null ELSE c[key].data

\* ... and the cache it leaves: cache.delete(key) of a missing or expired item.
cacheAfterGet(c, key, t) == IF Expired(c, key, t) THEN [c EXCEPT ![key] = NoEntry] ELSE c

\* function setCache(key, data, ttl), index.ts 242-244
setCache(c, key, data, ttl, t) ==
    [c EXCEPT ![key] = [set |-> TRUE, data |-> data, expiry |-> t + ttl]]

\* c.env.X402_BASE_PRICE || "$0.001", index.ts 833
basePriceOf(env) ==
    IF env.X402_BASE_PRICE.set THEN env.X402_BASE_PRICE.value ELSE Dollar(1000)

\* Object.keys(query).length, index.ts 826, over the parameters of a source
HasQuery(r, keys) == \E k \in keys : r[k] # Absent

\* The environment: a recipient address set or not, the base price unset
\* or "$0.0025".
Envs == {[X402_PAY_TO |-> p, X402_BASE_PRICE |-> b] :
            p \in BOOLEAN,
            b \in {[set |-> FALSE, value |-> Dollar(0)], [set |-> TRUE, value |-> Dollar(2500)]}}

NoRequest == [source |-> "none"]
NoResponse == [status |-> 0, isFree |-> FALSE, price |-> Dollar(0), count |-> Null]
NoDecision == [decision |-> "none", price |-> Dollar(0)]
ErrorResponse(status) == [status |-> status, isFree |-> FALSE, price |-> Dollar(0), count |-> Null]
EstimateResponse(isFree, price, count) ==
    [status |-> 200, isFree |-> isFree, price |-> price, count |-> count]
PassThrough == [decision |-> "next", price |-> Dollar(0)]
Gated(price) == [decision |-> "gate", price |-> price]

-----------------------------------------------------------------------------
(* Farcaster: GET /estimate (index.ts 1014-1104) and the payment           *)
(* middleware of GET / (index.ts 822-945).                                 *)

FarcasterKeys == {"fid", "username", "limit", "all", "includeReplies",
                  "includeParents", "includeReactions"}

\* Spellings of a boolean flag in a query string.
FlagSpellings == {Absent, "true", "TRUE"}

\* lookupUserStorageUsage: a count, a response without one, or an exception.
StorageOutcomes == {[t |-> "used", used |-> Num(100)], [t |-> "missing", used |-> Null],
                    [t |-> "throws", used |-> Null]}

\* Requests by fid or by username; lookupUserByUsername finds the user, finds
\* nobody or throws (it is only called for a request by username).
FarcasterRequests ==
    {[source |-> "farcaster", env |-> e, fid |-> id[1], username |-> id[2],
      limit |-> l, all |-> fl[1], includeReplies |-> fl[2], includeParents |-> fl[3],
      includeReactions |-> fl[4], user |-> id[3], storage |-> st] :
        e \in Envs,
        id \in {<<"2", Absent, "found">>, <<Absent, "alice", "found">>,
                <<Absent, "alice", "missing">>, <<Absent, "alice", "throws">>},
        l \in {Absent, "5", "11", "0", "abc"},
        fl \in FlagSpellings \X FlagSpellings \X {Absent, "true"} \X {Absent, "true"},
        st \in StorageOutcomes}

\* The PricingParams of /estimate, index.ts 1026-1032
estimateParams(r) ==
    [limit |-> limitOf(r.limit), all |-> strictFlag(r.all),
     includeReplies |-> strictFlag(r.includeReplies),
     includeParents |-> strictFlag(r.includeParents),
     includeReactions |-> strictFlag(r.includeReactions)]

\* The PricingParams of the payment middleware, index.ts 838-844
gateParams(r) ==
    [limit |-> limitOf(r.limit), all |-> lenientFlag(r.all),
     includeReplies |-> lenientFlag(r.includeReplies),
     includeParents |-> lenientFlag(r.includeParents),
     includeReactions |-> lenientFlag(r.includeReactions)]

\* /estimate resolves the fid, index.ts 1048-1071: ok is FALSE where it
\* answers 404.
estimateUserFid(r, c, t) ==
    IF Truthy(r.fid) THEN [ok |-> TRUE, fid |-> parseInt(r.fid), cache |-> c]
    ELSE LET cacheKey == userKey(toLowerCase(r.username))
             cached == getCached(c, cacheKey, t)
             c1 == cacheAfterGet(c, cacheKey, t)
         IN  IF TruthyNum(cached) THEN [ok |-> TRUE, fid |-> cached, cache |-> c1]
             ELSE IF r.user = "found"
                  THEN [ok |-> TRUE, fid |-> Num(2),
                        cache |-> setCache(c1, cacheKey, Num(2), 300000, t)]
                  ELSE [ok |-> FALSE, fid |-> Null, cache |-> c1]

\* /estimate reads the cast count, index.ts 1073-1085
estimateCastCount(r, userFid, c, t) ==
    LET storageCacheKey == storageKey(userFid)
        cached == getCached(c, storageCacheKey, t)
        c1 == cacheAfterGet(c, storageCacheKey, t)
    IN  IF cached # Null THEN [castCount |-> cached, cache |-> c1]
        ELSE IF r.storage.t = "throws" THEN [castCount |-> Num(0), cache |-> c1]
        ELSE LET castCount == IF r.storage.t = "used" THEN r.storage.used ELSE Num(0)
             IN  [castCount |-> castCount,
                  cache |-> setCache(c1, storageCacheKey, castCount, 60000, t)]

\* app.get("/estimate"), index.ts 1014-1104: the response and the cache.
estimateFarcaster(r, c, t) ==
    IF ~Truthy(r.fid) /\ ~Truthy(r.username)
    THEN [res |-> ErrorResponse(400), cache |-> c]
    ELSE
    LET params == estimateParams(r)
        basePrice == parseDollarPrice(basePriceOf(r.env))
    IN  IF isFreeTier(params)
        THEN [res |-> EstimateResponse(TRUE, Dollar(0), Null), cache |-> c]
        ELSE IF ~params.all
        THEN [res |-> EstimateResponse(FALSE,
                        calculateDynamicPriceWithCastCount(params, Null, basePrice), Null),
              cache |-> c]
        ELSE LET u == estimateUserFid(r, c, t)
             IN  IF ~u.ok THEN [res |-> ErrorResponse(404), cache |-> u.cache]
                 ELSE LET s == estimateCastCount(r, u.fid, u.cache, t)
                      IN  [res |-> EstimateResponse(FALSE,
                                      calculateDynamicPriceWithCastCount(
                                          params, s.castCount, basePrice),
                                      s.castCount),
                           cache |-> s.cache]

\* The middleware resolves the fid, index.ts 855-875: null where the lookup
\* finds nobody or throws.
gateUserFid(r, c, t) ==
    IF Truthy(r.fid)
    THEN [fid |-> parseInt(r.fid), thrown |-> FALSE, cache |-> c, calls |-> <<>>]
    ELSE IF Truthy(r.username)
    THEN LET cacheKey == userKey(toLowerCase(r.username))
             cached == getCached(c, cacheKey, t)
             c1 == cacheAfterGet(c, cacheKey, t)
         IN  IF TruthyNum(cached)
             THEN [fid |-> cached, thrown |-> FALSE, cache |-> c1, calls |-> <<>>]
             ELSE IF r.user = "found"
                  THEN [fid |-> Num(2), thrown |-> FALSE,
                        cache |-> setCache(c1, cacheKey, Num(2), 300000, t),
                        calls |-> <<"lookupUserByUsername">>]
                  ELSE [fid |-> Null, thrown |-> r.user = "throws", cache |-> c1,
                        calls |-> <<"lookupUserByUsername">>]
    ELSE [fid |-> Null, thrown |-> FALSE, cache |-> c, calls |-> <<>>]

\* The middleware reads the cast count, index.ts 852-892: it stays null
\* where a lookup throws or the response carries no count.
gateCastCount(r, c, t) ==
    LET u == gateUserFid(r, c, t)
    IN  IF u.thrown \/ ~TruthyNum(u.fid)
        THEN [castCount |-> Null, cache |-> u.cache, calls |-> u.calls]
        ELSE
        LET storageCacheKey == storageKey(u.fid)
            cached == getCached(u.cache, storageCacheKey, t)
            c1 == cacheAfterGet(u.cache, storageCacheKey, t)
            asked == u.calls \o <<"lookupUserStorageUsage">>
        IN  IF cached # Null THEN [castCount |-> cached, cache |-> c1, calls |-> u.calls]
            ELSE IF r.storage.t = "used"
                 THEN [castCount |-> r.storage.used,
                       cache |-> setCache(c1, storageCacheKey, r.storage.used, 60000, t),
                       calls |-> asked]
                 ELSE [castCount |-> Null, cache |-> c1, calls |-> asked]

\* app.use("/"), index.ts 822-945: what the middleware does and the cache.
gateFarcaster(r, c, t) ==
    IF ~HasQuery(r, FarcasterKeys) \/ ~r.env.X402_PAY_TO
    THEN [res |-> PassThrough, cache |-> c, calls |-> <<>>]
    ELSE
    LET pricingParams == gateParams(r)
        basePrice == basePriceOf(r.env)
    IN  IF isFreeTier(pricingParams) THEN [res |-> PassThrough, cache |-> c, calls |-> <<>>]
        ELSE LET s == IF pricingParams.all THEN gateCastCount(r, c, t)
                      ELSE [castCount |-> Null, cache |-> c, calls |-> <<>>]
             IN  [res |-> Gated(calculateDynamicPriceWithCastCount(
                                    pricingParams, s.castCount, parseDollarPrice(basePrice))),
                  cache |-> s.cache, calls |-> s.calls]

\* A client asks /estimate for the price of req.
EstimateFarcaster ==
    /\ req.source = "farcaster" /\ est = NoResponse
    /\ LET out == estimateFarcaster(req, cache, now)
       IN  est' = out.res /\ cache' = out.cache
    /\ UNCHANGED <<req, gate, limiterVars, pricingVars, hookVars, fetchVars>>

\* The same query reaches the payment middleware of the export route.
GateFarcaster ==
    /\ req.source = "farcaster" /\ gate = NoDecision
    /\ LET out == gateFarcaster(req, cache, now)
       IN  gate' = out.res /\ cache' = out.cache
    /\ UNCHANGED <<req, est, limiterVars, pricingVars, hookVars, fetchVars>>

-----------------------------------------------------------------------------
(* Bluesky: GET /bsky/estimate (index.ts 1219-1264) and the payment        *)
(* middleware of GET /bsky (index.ts 1292-1385).                           *)

BskyKeys == {"handle", "did", "limit", "all", "includeReplies", "includeParents",
             "includeReactions"}

\* agent.getProfile: a profile with a post count, one without, or an exception.
ProfileOutcomes == {[t |-> "count", postsCount |-> Num(100)],
                    [t |-> "missing", postsCount |-> Null],
                    [t |-> "throws", postsCount |-> Null]}

BskyRequests ==
    {[source |-> "bsky", env |-> e, handle |-> id[1], did |-> id[2],
      limit |-> l, all |-> fl[1], includeReplies |-> fl[2], includeParents |-> fl[3],
      includeReactions |-> fl[4], profile |-> pr] :
        e \in Envs,
        id \in {<<"alice.bsky.social", Absent>>, <<Absent, "did:plc:alice">>},
        l \in {Absent, "5", "11", "0", "abc"},
        fl \in FlagSpellings \X FlagSpellings \X {Absent, "true"} \X {Absent, "true"},
        pr \in ProfileOutcomes}

\* profile.data.postsCount ?? null inside try/catch, index.ts 1243-1250 and
\* 1323-1332
postCountOf(r) == IF r.profile.t = "count" THEN r.profile.postsCount ELSE Null

\* app.get("/bsky/estimate"), index.ts 1219-1264
estimateBsky(r) ==
    IF ~Truthy(r.handle) /\ ~Truthy(r.did) THEN ErrorResponse(400)
    ELSE
    LET params == estimateParams(r)
        postCount == IF params.all THEN postCountOf(r) ELSE Null
    IN  IF isFreeTier(params) THEN EstimateResponse(TRUE, Dollar(0), Null)
        ELSE EstimateResponse(FALSE,
                 calculateDynamicPriceWithCastCount(
                     params, postCount, parseDollarPrice(basePriceOf(r.env))),
                 postCount)

\* app.use("/bsky"), index.ts 1292-1385
gateBsky(r) ==
    IF ~HasQuery(r, BskyKeys) \/ ~r.env.X402_PAY_TO THEN PassThrough
    ELSE
    LET pricingParams == gateParams(r)
        actor == Truthy(r.did) \/ Truthy(r.handle)
        postCount == IF pricingParams.all /\ actor THEN postCountOf(r) ELSE Null
    IN  IF isFreeTier(pricingParams) THEN PassThrough
        ELSE Gated(calculateDynamicPriceWithCastCount(
                       pricingParams, postCount, parseDollarPrice(basePriceOf(r.env))))

\* The upstream calls of the middleware: the profile of an "all" request
\* that is not free, index.ts 1320-1333
gateBskyCalls(r) ==
    IF /\ HasQuery(r, BskyKeys) /\ r.env.X402_PAY_TO
       /\ ~isFreeTier(gateParams(r))
       /\ gateParams(r).all /\ (Truthy(r.did) \/ Truthy(r.handle))
    THEN <<"getProfile">> ELSE <<>>

EstimateBsky ==
    /\ req.source = "bsky" /\ est = NoResponse
    /\ est' = estimateBsky(req)
    /\ UNCHANGED <<req, cache, gate, limiterVars, pricingVars, hookVars, fetchVars>>

GateBsky ==
    /\ req.source = "bsky" /\ gate = NoDecision
    /\ gate' = gateBsky(req)
    /\ UNCHANGED <<req, cache, est, limiterVars, pricingVars, hookVars, fetchVars>>

-----------------------------------------------------------------------------
(* RSS: GET /rss/estimate (index.ts 1663-1707) and the payment middleware  *)
(* of GET /rss (index.ts 1710-1793).                                       *)

RssKeys == {"url", "limit", "all", "includeContent"}

\* fetch(url): a feed of so many items, a response that is not ok, or an
\* exception.
FeedOutcomes == {[t |-> "ok", itemCount |-> Num(20)], [t |-> "notok", itemCount |-> Null],
                 [t |-> "throws", itemCount |-> Null]}

RssRequests ==
    {[source |-> "rss", env |-> e, url |-> "https://example.com/feed.xml",
      limit |-> l, all |-> fl[1], includeContent |-> fl[2], feed |-> fd] :
        e \in Envs,
        l \in {Absent, "5", "11", "0", "-1", "abc"},
        fl \in FlagSpellings \X FlagSpellings,
        fd \in FeedOutcomes}

\* query.limit ? Number(query.limit) : 10, index.ts 1671 and 1724
itemCountOf(s) == IF Truthy(s) THEN NumberOf(s) ELSE Num(10)

\* The item count after the feed was fetched for an "all" request,
\* index.ts 1682-1699 and 1734-1750
withFeedCount(params, r) ==
    IF params.all /\ r.feed.t = "ok"
    THEN [params EXCEPT !.itemCount = r.feed.itemCount] ELSE params

\* app.get("/rss/estimate"), index.ts 1663-1707
estimateRss(r) ==
    IF ~Truthy(r.url) THEN ErrorResponse(400)
    ELSE
    LET params == [itemCount |-> itemCountOf(r.limit), all |-> strictFlag(r.all),
                   includeContent |-> strictFlag(r.includeContent)]
    IN  IF isRssFreeTier(params) THEN EstimateResponse(TRUE, Dollar(0), Null)
        ELSE EstimateResponse(FALSE,
                 calculateRssPrice(withFeedCount(params, r),
                                   parseDollarPrice(basePriceOf(r.env))),
                 IF params.all /\ r.feed.t = "ok" THEN r.feed.itemCount ELSE Null)

\* app.use("/rss"), index.ts 1710-1793
gateRss(r) ==
    IF ~HasQuery(r, RssKeys) \/ ~Truthy(r.url) \/ ~r.env.X402_PAY_TO THEN PassThrough
    ELSE
    LET pricingParams == [itemCount |-> itemCountOf(r.limit), all |-> lenientFlag(r.all),
                          includeContent |-> lenientFlag(r.includeContent)]
    IN  IF isRssFreeTier(pricingParams) THEN PassThrough
        ELSE Gated(calculateRssPrice(withFeedCount(pricingParams, r),
                                     parseDollarPrice(basePriceOf(r.env))))

EstimateRss ==
    /\ req.source = "rss" /\ est = NoResponse
    /\ est' = estimateRss(req)
    /\ UNCHANGED <<req, cache, gate, limiterVars, pricingVars, hookVars, fetchVars>>

GateRss ==
    /\ req.source = "rss" /\ gate = NoDecision
    /\ gate' = gateRss(req)
    /\ UNCHANGED <<req, cache, est, limiterVars, pricingVars, hookVars, fetchVars>>

-----------------------------------------------------------------------------
(* Git: GET /git/estimate (index.ts 2345-2416) and the payment middleware  *)
(* of GET /git (index.ts 2419-2506).                                       *)

GitKeys == {"url", "includeContent", "includeTree", "include", "exclude", "maxFileSize"}

\* function parseGitUrl(url), index.ts 1993-2013, on the urls the model draws
parseGitUrl(url) ==
    CASE url = "https://github.com/o/r" -> "github"
      [] url = "https://gitlab.com/o/r" -> "gitlab"
      [] OTHER -> "null"

\* GET /repos/o/r: the size in KB, a response that is not ok, or an exception.
RepoOutcomes == {[t |-> "ok", size |-> 500], [t |-> "ok", size |-> 10000],
                 [t |-> "notok", size |-> 0], [t |-> "throws", size |-> 0]}

\* GET /repos/o/r/git/trees/<branch>?recursive=1: so many entries, a response
\* that is not ok, or an exception.
TreeOutcomes == {[t |-> "ok", length |-> 10], [t |-> "ok", length |-> 1000],
                 [t |-> "notok", length |-> 0], [t |-> "throws", length |-> 0]}

\* The upstream of a url: only a GitHub repository is asked, and its tree
\* only once the repository answered.
GitUpstreams(url) ==
    IF parseGitUrl(url) # "github"
    THEN {<<[t |-> "notok", size |-> 0], [t |-> "notok", length |-> 0]>>}
    ELSE {u \in RepoOutcomes \X TreeOutcomes : u[1].t # "ok" => u[2].t = "notok"}

GitRequests ==
    {[source |-> "git", env |-> e, url |-> u[1], includeContent |-> fl[1],
      includeTree |-> fl[2], include |-> pt[1], exclude |-> pt[2],
      maxFileSize |-> pt[3], repo |-> u[2][1], tree |-> u[2][2]] :
        e \in Envs,
        u \in UNION {{<<url, up>> : up \in GitUpstreams(url)} :
                        url \in {"https://github.com/o/r", "https://gitlab.com/o/r"}},
        fl \in FlagSpellings \X FlagSpellings,
        pt \in {Absent, "src/**"} \X {Absent, "*.md"} \X {Absent, "50000"}}

\* includeParam ? includeParam.split(",")... : undefined, and
\* maxFileSizeParam ? Number(maxFileSizeParam) : undefined, index.ts 2360-2362:
\* whether a pattern list is not empty, and the size in bytes (0: undefined).
gitQueryParams(r, includeContent, includeTree) ==
    [includeContent |-> includeContent, includeTree |-> includeTree,
     includePatterns |-> Truthy(r.include), excludePatterns |-> Truthy(r.exclude),
     maxFileSize |-> IF Truthy(r.maxFileSize) THEN NumberOf(r.maxFileSize).h \div 2 ELSE 0,
     repoSize |-> 0, fileCount |-> 0, estimatedOutputKB |-> 0]

\* app.get("/git/estimate"), index.ts 2345-2416
estimateGit(r) ==
    IF ~Truthy(r.url) THEN ErrorResponse(400)
    ELSE
    LET params == gitQueryParams(r, strictFlag(r.includeContent), strictFlag(r.includeTree))
        github == parseGitUrl(r.url) = "github" /\ r.repo.t = "ok"
        repoSize == IF github THEN r.repo.size ELSE 0
        fileCount == IF github /\ params.includeTree /\ r.tree.t = "ok"
                     THEN r.tree.length ELSE 0
    IN  IF isGitFreeTier(params) THEN EstimateResponse(TRUE, Dollar(0), Null)
        ELSE EstimateResponse(FALSE,
                 calculateGitPrice([params EXCEPT !.repoSize = repoSize,
                                                  !.fileCount = fileCount],
                                   parseDollarPrice(basePriceOf(r.env))),
                 Num(fileCount))

\* app.use("/git"), index.ts 2419-2506
gateGit(r) ==
    IF ~HasQuery(r, GitKeys) \/ ~Truthy(r.url) \/ ~r.env.X402_PAY_TO THEN PassThrough
    ELSE
    LET pricingParams == gitQueryParams(r, lenientFlag(r.includeContent),
                                        lenientFlag(r.includeTree))
        repoSize == IF parseGitUrl(r.url) = "github" /\ r.repo.t = "ok"
                    THEN r.repo.size ELSE 0
    IN  IF isGitFreeTier(pricingParams) THEN PassThrough
        ELSE Gated(calculateGitPrice([pricingParams EXCEPT !.repoSize = repoSize],
                                     parseDollarPrice(basePriceOf(r.env))))

EstimateGit ==
    /\ req.source = "git" /\ est = NoResponse
    /\ est' = estimateGit(req)
    /\ UNCHANGED <<req, cache, gate, limiterVars, pricingVars, hookVars, fetchVars>>

GateGit ==
    /\ req.source = "git" /\ gate = NoDecision
    /\ gate' = gateGit(req)
    /\ UNCHANGED <<req, cache, est, limiterVars, pricingVars, hookVars, fetchVars>>

-----------------------------------------------------------------------------
(* RateLimiter, index.ts 247-296.                                          *)

ENDPOINT_LIMIT == 250
GLOBAL_LIMIT == 450
WINDOW_MS == 60000

\* The endpoint keys the adapters pass to waitForSlot; the concurrent callers
\* below use the two Farcaster keys.
Endpoints == {"/v2/farcaster/feed/user/casts", "/v2/farcaster/cast",
              "bsky:getAuthorFeed", "bsky:getPostThread", "rss:fetch", "github:content"}
LimiterEndpoints == {"/v2/farcaster/feed/user/casts", "/v2/farcaster/cast"}

Callers == 1..NumCallers

\* The clock advances by the retry buffer, or by a whole window.
TickSteps == {100, 60000}

\* requests.filter((timestamp) => now - timestamp < this.WINDOW_MS)
cleanOldRequests(requests, t) ==
    SelectSeq(requests, LAMBDA timestamp : t - timestamp < WINDOW_MS)

\* AtLimit with a fault: > where the code has >=.
AtLimit_strict(globalCount, endpointCount) ==
    globalCount > GLOBAL_LIMIT \/ endpointCount > ENDPOINT_LIMIT

\* if (globalCount >= this.GLOBAL_LIMIT || endpointCount >= this.ENDPOINT_LIMIT)
AtLimit(globalCount, endpointCount) ==
    globalCount >= GLOBAL_LIMIT \/ endpointCount >= ENDPOINT_LIMIT

\* waitTime with a fault: every suspended call retries after a second.
waitTime_short(relevantRequests, t) == 1000

\* The delay of a suspended call: 1000 when the oldest timestamp is falsy,
\* else WINDOW_MS - (now - oldestRequest) + 100.
waitTime(relevantRequests, t) ==
    LET oldestRequest == IF Len(relevantRequests) > 0 THEN relevantRequests[1] ELSE 0
    IN  IF oldestRequest = 0 THEN 1000
        ELSE WINDOW_MS - (t - oldestRequest) + 100

\* slotOutcome with a fault: the admission is recorded in the endpoint's list
\* and not in the global list.
slotOutcome_endpointOnly(g, er, e, t) ==
    [admitted |-> TRUE, globalRequests |-> cleanOldRequests(g, t),
     endpointRequests |-> [er EXCEPT ![e] = Append(cleanOldRequests(er[e], t), t)],
     waitTime |-> 0]

\* One run of waitForSlot's body on endpoint e at instant t, from its entry to
\* its return or to its setTimeout (the body has no await in between): whether
\* the call is admitted, the two lists it leaves, and the delay of the timer.
slotOutcome(g, er, e, t) ==
    LET cleanedGlobal == cleanOldRequests(g, t)
        endpointReqs == cleanOldRequests(er[e], t)
        globalCount == Len(cleanedGlobal)
        endpointCount == Len(endpointReqs)
    IN  IF AtLimit(globalCount, endpointCount)
        THEN LET relevantRequests ==
                     IF globalCount >= GLOBAL_LIMIT THEN cleanedGlobal ELSE endpointReqs
             IN  [admitted |-> FALSE, globalRequests |-> cleanedGlobal,
                  endpointRequests |-> [er EXCEPT ![e] = endpointReqs],
                  waitTime |-> waitTime(relevantRequests, t)]
        ELSE [admitted |-> TRUE, globalRequests |-> Append(cleanedGlobal, t),
              endpointRequests |-> [er EXCEPT ![e] = Append(endpointReqs, t)],
              waitTime |-> 0]

\* async waitForSlot(endpoint), index.ts 259-295, run by caller c.
waitForSlot(c, e) ==
    LET s == slotOutcome(globalRequests, endpointRequests, e, now)
    IN  /\ globalRequests' = s.globalRequests
        /\ endpointRequests' = s.endpointRequests
        /\ callers' = [callers EXCEPT ![c] =
               IF s.admitted THEN [pc |-> "admitted", endpoint |-> e, wakeAt |-> 0]
               ELSE [pc |-> "suspended", endpoint |-> e, wakeAt |-> now + s.waitTime]]

\* A caller enters waitForSlot(endpoint).
Call(c, e) ==
    /\ callers[c].pc \in {"idle", "admitted"}
    /\ calls < MaxCalls
    /\ calls' = calls + 1
    /\ waitForSlot(c, e)
    /\ UNCHANGED <<now, ticks, pricingVars, hookVars, quoteVars, fetchVars>>

\* The setTimeout of a suspended caller fires: return this.waitForSlot(endpoint).
Wake(c) ==
    /\ callers[c].pc = "suspended"
    /\ now >= callers[c].wakeAt
    /\ waitForSlot(c, callers[c].endpoint)
    /\ UNCHANGED <<now, calls, ticks, pricingVars, hookVars, quoteVars, fetchVars>>

\* Time passes until the next timer of a suspended call is due
\* (await new Promise((resolve) => setTimeout(resolve, waitTime))).
Elapse ==
    /\ \E c \in Callers : callers[c].pc = "suspended" /\ callers[c].wakeAt > now
    /\ now' = CHOOSE t \in {callers[c].wakeAt : c \in Callers} :
                  /\ t > now
                  /\ \E c \in Callers : callers[c].pc = "suspended" /\ callers[c].wakeAt = t
                  /\ \A c \in Callers :
                        (callers[c].pc = "suspended" /\ callers[c].wakeAt > now)
                            => t <= callers[c].wakeAt
    /\ UNCHANGED <<globalRequests, endpointRequests, callers, calls, ticks>>
    /\ UNCHANGED <<pricingVars, hookVars, quoteVars, fetchVars>>

\* Time passes.
Tick(d) ==
    /\ ticks < MaxTicks
    /\ ticks' = ticks + 1
    /\ now' = now + d
    /\ UNCHANGED <<globalRequests, endpointRequests, callers, calls>>
    /\ UNCHANGED <<pricingVars, hookVars, quoteVars, fetchVars>>

\* n timestamps t: what n admissions at instant t leave in a list.
Stamps(n, t) == [i \in 1..n |-> t]

\* Admission counts the limiter starts the run with: none, or close to a ceiling.
PreloadCounts == {0, ENDPOINT_LIMIT - 51, ENDPOINT_LIMIT - 1}

IdleCallers == [c \in Callers |-> [pc |-> "idle", endpoint |-> "", wakeAt |-> 0]]

-----------------------------------------------------------------------------
(* The Farcaster and Bluesky exports: GET / (index.ts 1173-1212) with      *)
(* fetchUserData and fetchCasts (index.ts 346-439), GET /bsky (index.ts    *)
(* 1388-1426) with fetchBskyUserData and fetchBskyPosts (index.ts 584-693).*)
(* A unit is a record: its id (1 is the newest), the parent it replies to  *)
(* (0: none), whether it is a repost, and the parent attached to it.       *)

Item(id, parent, reason) ==
    [id |-> id, parentHash |-> parent, reason |-> reason, parentCast |-> 0]

\* The parents a feed can refer to: enough for two batches of lookups.
NumParents == 27

\* const batchSize = 25, index.ts 405 and 639
batchSize == 25

\* The feeds of the upstream, as the pages it serves: 3 pages of 50 units,
\* 2 pages of 3 units with replies to three parents and a repost, and one
\* empty page.
Feed150 == [p \in 1..3 |-> [k \in 1..50 |-> Item((p - 1) * 50 + k, 0, FALSE)]]
FeedReplies == << <<Item(1, 0, FALSE), Item(2, 101, FALSE), Item(3, 102, FALSE)>>,
                  <<Item(4, 101, FALSE), Item(5, 0, TRUE), Item(6, 103, FALSE)>> >>
FeedEmpty == << <<>> >>
ParentRefs == 101..(100 + NumParents)

NoLookups == [h \in ParentRefs |-> "none"]
NoExport == [status |-> 0, items |-> <<>>]
ExportError(status) == [status |-> status, items |-> <<>>]

SocialExports ==
    {[source |-> id[1], fid |-> id[2], username |-> id[3], handle |-> id[4], did |-> id[5],
      limit |-> l, sortOrder |-> so, all |-> fl[1], includeReplies |-> fl[2],
      includeParents |-> fl[3], includeReactions |-> Absent, feed |-> fd,
      env |-> [X402_PAY_TO |-> payTo,
               X402_BASE_PRICE |-> [set |-> FALSE, value |-> Dollar(0)]],
      user |-> "found", storage |-> [t |-> "used", used |-> Num(100)],
      profile |-> [t |-> "count", postsCount |-> Num(100)]] :
        payTo \in BOOLEAN,
        id \in {<<"farcaster", "2", Absent, Absent, Absent>>,
                <<"farcaster", "0", Absent, Absent, Absent>>,
                <<"farcaster", Absent, Absent, Absent, Absent>>,
                <<"farcaster", Absent, "alice", Absent, Absent>>,
                <<"bsky", Absent, Absent, "alice.bsky.social", Absent>>,
                <<"bsky", Absent, Absent, Absent, "did:plc:alice">>},
        l \in {Absent, "2", "5", "120", "0", "abc"},
        so \in {Absent, "oldest", "sideways"},
        fl \in {Absent, "true"} \X {Absent, "true"} \X {Absent, "TRUE"},
        fd \in {Feed150, FeedReplies, FeedEmpty}}

\* array.reverse()
Reverse(seq) == [i \in 1..Len(seq) |-> seq[Len(seq) + 1 - i]]

\* array.slice(0, end) for an end given in halves: the end is truncated to an
\* integer, and a negative end counts from the end of the array.
slice(seq, h) ==
    LET k == IF h >= 0 THEN h \div 2 ELSE -((-h) \div 2)
        end == IF k < 0 THEN Max(Len(seq) + k, 0)
               ELSE IF k < Len(seq) THEN k ELSE Len(seq)
    IN  SubSeq(seq, 1, end)

\* distinct with a fault: the references as they come, repeats included.
distinct_not(refs) == refs

\* [...new Set(refs)]: the distinct references, in the order of first occurrence
RECURSIVE distinct(_)
distinct(refs) ==
    IF refs = <<>> THEN <<>>
    ELSE LET init == distinct(SubSeq(refs, 1, Len(refs) - 1))
             last == refs[Len(refs)]
         IN  IF \E i \in 1..Len(init) : init[i] = last THEN init ELSE Append(init, last)

\* allCasts.map((c) => c.parentHash).filter(Boolean), made distinct
parentRefs(casts) ==
    LET withParent == SelectSeq(casts, LAMBDA c : c.parentHash # 0)
    IN  distinct([i \in 1..Len(withParent) |-> withParent[i].parentHash])

\* const fetchAll = params.all === true, after the handler's
\* String(q.all).toLowerCase() === "true"
fetchAll(r) == lenientFlag(r.all)

\* fetchAll ? Infinity : (Number(params.limit) || 50), in halves
fetchLimit(r) == OrDefault(NumberOf(r.limit), 50)

\* The page filter: fetchCasts drops replies unless includeReplies
\* (index.ts 385-387), fetchBskyPosts drops reposts (index.ts 613-615).
pageFilter(r, item) ==
    IF r.source = "farcaster"
    THEN lenientFlag(r.includeReplies) \/ item.parentHash = 0
    ELSE ~item.reason

feedEndpoint(r) ==
    IF r.source = "farcaster" THEN "/v2/farcaster/feed/user/casts" ELSE "bsky:getAuthorFeed"

parentEndpoint(r) ==
    IF r.source = "farcaster" THEN "/v2/farcaster/cast" ELSE "bsky:getPostThread"

\* The handler's validation, index.ts 1177-1192 and 1392-1401: the status it
\* answers with, or 0 where it goes on.
validateExport(r) ==
    LET n == NumberOf(r.limit)
    IN  IF r.source = "farcaster" /\ ~HasQuery(r, FarcasterKeys \cup {"sortOrder"}) THEN 302
        ELSE IF r.source = "bsky" /\ ~HasQuery(r, BskyKeys \cup {"sortOrder"}) THEN 302
        ELSE IF r.source = "farcaster" /\ ~Truthy(r.fid) /\ ~Truthy(r.username) THEN 400
        ELSE IF r.source = "bsky" /\ ~Truthy(r.handle) /\ ~Truthy(r.did) THEN 400
        ELSE IF r.source = "farcaster" /\ Truthy(r.fid)
                /\ (NumberOf(r.fid).t # "num" \/ NumberOf(r.fid).h <= 0) THEN 400
        ELSE IF Truthy(r.limit) /\ (n.t # "num" \/ n.h <= 0) THEN 400
        ELSE IF Truthy(r.sortOrder) /\ r.sortOrder \notin {"newest", "oldest"} THEN 400
        ELSE 0

\* resolveFid (index.ts 300-311) and resolveBskyHandle (index.ts 495-506):
\* the cache they leave when the lookup answers found, and whether a lookup
\* is made at all.
resolveKey(r) == IF r.source = "farcaster" THEN "fid:alice" ELSE "bsky:did:alice.bsky.social"
resolveData(r) == IF r.source = "farcaster" THEN Num(2) ELSE [t |-> "str", h |-> 0]
needsResolve(r) == IF r.source = "farcaster" THEN ~Truthy(r.fid) ELSE ~Truthy(r.did)
TruthyValue(x) == x.t = "str" \/ TruthyNum(x)

\* n calls of waitForSlot in a row, as batch.map starts them: all admitted,
\* or the first that is not.
RECURSIVE slots(_, _, _, _, _)
slots(g, er, e, t, n) ==
    IF n = 0 THEN [admitted |-> TRUE, globalRequests |-> g, endpointRequests |-> er]
    ELSE LET s == slotOutcome(g, er, e, t)
         IN  IF ~s.admitted
             THEN [admitted |-> FALSE, globalRequests |-> s.globalRequests,
                   endpointRequests |-> s.endpointRequests]
             ELSE slots(s.globalRequests, s.endpointRequests, e, t, n - 1)

\* inParentMap with a fault: a parent is attached whatever its lookup gave.
inParentMap_any(map, hash) == hash # 0

\* c.parentHash && parentMap[c.parentHash], index.ts 429-431
inParentMap(map, hash) == hash # 0 /\ hash \in map

\* allCasts.forEach: attach the resolved parents, then
\* return fetchAll ? allCasts : allCasts.slice(0, limit), index.ts 428-438
returnCasts(r, casts, map) ==
    LET attached == [i \in 1..Len(casts) |->
                        IF inParentMap(map, casts[i].parentHash)
                        THEN [casts[i] EXCEPT !.parentCast = casts[i].parentHash]
                        ELSE casts[i]]
    IN  IF fetchAll(r) THEN attached ELSE slice(attached, fetchLimit(r))

\* The batch that starts at index i: parentHashes.slice(i, i + batchSize)
batchOf(hashes, i) ==
    SubSeq(hashes, i + 1, IF i + batchSize < Len(hashes) THEN i + batchSize ELSE Len(hashes))

\* The export goes on after an await, with the casts in their final order and
\* the batch loop at index i: it starts the next batch of lookups, or with
\* none left it attaches the parents and answers.
Proceed(casts, hashes, i, map, g, er, tr) ==
    IF i < Len(hashes)
    THEN LET batch == batchOf(hashes, i)
             s == slots(g, er, parentEndpoint(freq), now, Len(batch))
         IN  /\ s.admitted
             /\ trace' = tr \o [k \in 1..Len(batch) |-> "waitForSlot"]
             /\ fpc' = "batch"
             /\ lookups' = [h \in ParentRefs |->
                              IF \E k \in 1..Len(batch) : batch[k] = h THEN "pending"
                              ELSE lookups[h]]
             /\ globalRequests' = s.globalRequests
             /\ endpointRequests' = s.endpointRequests
             /\ fres' = fres
    ELSE /\ fpc' = "done"
         /\ trace' = tr
         /\ fres' = [status |-> 200, items |-> returnCasts(freq, casts, map)]
         /\ lookups' = lookups
         /\ globalRequests' = g
         /\ endpointRequests' = er

\* The upstream calls by name: resolveFid and resolveBskyHandle, the profile
\* read, a page of the feed, a parent lookup.
resolveCall(r) == IF r.source = "farcaster" THEN "lookupUserByUsername" ELSE "getProfile"

profileCall(r) == IF r.source = "farcaster" THEN "fetchBulkUsers" ELSE "getProfile"

pageCall(r) == IF r.source = "farcaster" THEN "fetchCastsForUser" ELSE "getAuthorFeed"

parentCall(r) == IF r.source = "farcaster" THEN "lookupCastByHashOrUrl" ELSE "getPosts"

UpstreamCalls ==
    {"lookupUserByUsername", "lookupUserStorageUsage", "fetchBulkUsers", "fetchCastsForUser",
     "lookupCastByHashOrUrl", "getProfile", "getAuthorFeed", "getPosts", "fetch"}

\* The upstream requests a middleware makes for its price: the feed of an
\* "all" request (index.ts 1734-1750), the repository record of a GitHub
\* url (index.ts 2444-2461).
gateRssCalls(r) ==
    IF gateRss(r).decision = "gate" /\ lenientFlag(r.all) THEN <<"fetch">> ELSE <<>>

gateGitCalls(r) ==
    IF gateGit(r).decision = "gate" /\ parseGitUrl(r.url) = "github" THEN <<"fetch">> ELSE <<>>

\* An RSS export request as its middleware sees it: the feed it fetches for
\* the price of an "all" request holds as many items as the parser finds.
asPriced(r) == [r EXCEPT !.feed = [t |-> "ok", itemCount |-> Num(Len(r.feed))]]

\* The payment middleware of the route runs first: it passes the request on,
\* or prices it (for an "all" request after asking the upstream for a count)
\* and hands it to paymentMiddleware, which answers 402 unless the request
\* carries a payment.
Middleware(paid) ==
    /\ freq.source \in {"farcaster", "bsky", "rss"} /\ fpc = "idle"
    /\ LET out == CASE freq.source = "farcaster" -> gateFarcaster(freq, cache, now)
                    [] freq.source = "bsky" ->
                           [res |-> gateBsky(freq), cache |-> cache, calls |-> gateBskyCalls(freq)]
                    [] OTHER -> [res |-> gateRss(asPriced(freq)), cache |-> cache,
                                 calls |-> gateRssCalls(asPriced(freq))]
       IN  /\ gate' = out.res
           /\ cache' = out.cache
           /\ IF out.res.decision = "next"
              THEN /\ fpc' = "handler" /\ fres' = fres
                   /\ trace' = trace \o out.calls
              ELSE /\ trace' = trace \o out.calls \o <<"paymentMiddleware">>
                   /\ IF paid THEN fpc' = "handler" /\ fres' = fres
                      ELSE fpc' = "done" /\ fres' = ExportError(402)
    /\ UNCHANGED <<freq, allCasts, cursor, parentHashes, batchAt, lookups, parentMap>>
    /\ UNCHANGED <<req, est, limiterVars, pricingVars, hookVars>>

\* The handler starts: it validates the query, resolves the user and reads
\* the profile; the upstream answers each of the two lookups or fails it.
ExportStart(found, profile) ==
    /\ freq.source \in {"farcaster", "bsky"} /\ fpc = "handler"
    /\ IF validateExport(freq) # 0
       THEN /\ fpc' = "done" /\ fres' = ExportError(validateExport(freq))
            /\ cache' = cache /\ trace' = trace
       ELSE LET key == resolveKey(freq)
                cached == needsResolve(freq) /\ TruthyValue(getCached(cache, key, now))
                c1 == IF needsResolve(freq) THEN cacheAfterGet(cache, key, now) ELSE cache
                lookup == needsResolve(freq) /\ ~cached
                resolved == IF lookup THEN trace \o <<resolveCall(freq)>> ELSE trace
            IN  IF lookup /\ ~found
                THEN /\ fpc' = "done" /\ fres' = ExportError(500) /\ cache' = c1
                     /\ trace' = resolved \o <<"not found">>
                ELSE /\ cache' = IF lookup THEN setCache(c1, key, resolveData(freq), 300000, now)
                                 ELSE c1
                     /\ IF profile
                        THEN /\ fpc' = "paging" /\ fres' = fres
                             /\ trace' = resolved \o <<profileCall(freq)>>
                        ELSE /\ fpc' = "done" /\ fres' = ExportError(500)
                             /\ trace' = resolved \o <<profileCall(freq), "failed">>
    /\ UNCHANGED <<freq, allCasts, cursor, parentHashes, batchAt, lookups, parentMap>>
    /\ UNCHANGED <<req, est, gate, limiterVars, pricingVars, hookVars>>

\* pageAt with a fault: the request does not carry the cursor.
pageAt_first(c) == 1

\* The page the upstream serves for a cursor: the first page for undefined,
\* else the page the cursor stands for (index.ts 376-381, 605-610).
pageAt(c) == IF c = 0 THEN 1 ELSE c

\* One turn of the do ... while loop: waitForSlot, the page at the cursor, the
\* page filter; after the last turn the casts are put in order and the export
\* goes on to the parents.
FetchPage ==
    /\ fpc = "paging"
    /\ LET s == slotOutcome(globalRequests, endpointRequests, feedEndpoint(freq), now)
           at == pageAt(cursor)
           filtered == SelectSeq(freq.feed[at], LAMBDA item : pageFilter(freq, item))
           casts == allCasts \o filtered
           next == IF at < Len(freq.feed) THEN at + 1 ELSE 0
           asked == trace \o <<"waitForSlot", pageCall(freq)>>
       IN  /\ s.admitted
           /\ cursor' = next
           /\ IF next # 0 /\ (fetchAll(freq) \/ 2 * Len(casts) < fetchLimit(freq))
              THEN /\ allCasts' = casts
                   /\ globalRequests' = s.globalRequests
                   /\ endpointRequests' = s.endpointRequests
                   /\ trace' = asked
                   /\ UNCHANGED <<fpc, parentHashes, lookups, fres>>
              ELSE LET sorted == IF freq.sortOrder = "oldest" THEN Reverse(casts) ELSE casts
                       hashes == IF lenientFlag(freq.includeParents)
                                 THEN parentRefs(sorted) ELSE <<>>
                   IN  /\ allCasts' = sorted
                       /\ parentHashes' = hashes
                       /\ Proceed(sorted, hashes, 0, {}, s.globalRequests, s.endpointRequests, asked)
    /\ UNCHANGED <<freq, batchAt, parentMap>>
    /\ UNCHANGED <<now, callers, calls, ticks, pricingVars, hookVars, quoteVars>>

\* The upstream fails a page: fetchCasts throws and the handler answers 500.
FetchPageFails ==
    /\ fpc = "paging"
    /\ LET s == slotOutcome(globalRequests, endpointRequests, feedEndpoint(freq), now)
       IN  /\ s.admitted
           /\ globalRequests' = s.globalRequests
           /\ endpointRequests' = s.endpointRequests
    /\ fpc' = "done"
    /\ fres' = ExportError(500)
    /\ trace' = trace \o <<"waitForSlot", pageCall(freq), "failed">>
    /\ UNCHANGED <<freq, allCasts, cursor, parentHashes, batchAt, lookups, parentMap>>
    /\ UNCHANGED <<now, callers, calls, ticks, pricingVars, hookVars, quoteVars>>

\* One parent lookup of the running batch answers: a unit, no unit, or an
\* exception that the callback catches (index.ts 410-425).
ParentAnswer(h, outcome) ==
    /\ fpc = "batch" /\ lookups[h] = "pending"
    /\ lookups' = [lookups EXCEPT ![h] = outcome]
    /\ trace' = trace \o <<parentCall(freq)>>
    /\ UNCHANGED <<freq, fpc, allCasts, cursor, parentHashes, batchAt, parentMap, fres>>
    /\ UNCHANGED <<limiterVars, pricingVars, hookVars, quoteVars>>

\* Promise.all of the batch resolves: results.forEach fills parentMap and the
\* for loop goes on.
BatchDone ==
    /\ fpc = "batch"
    /\ \A h \in ParentRefs : lookups[h] # "pending"
    /\ LET map == {h \in ParentRefs : lookups[h] = "ok"}
           i == batchAt + batchSize
       IN  /\ parentMap' = map
           /\ batchAt' = i
           /\ Proceed(allCasts, parentHashes, i, map, globalRequests, endpointRequests, trace)
    /\ UNCHANGED <<freq, allCasts, cursor, parentHashes>>
    /\ UNCHANGED <<now, callers, calls, ticks, pricingVars, hookVars, quoteVars>>

-----------------------------------------------------------------------------
(* The RSS export: GET /rss (index.ts 1796-1820) with fetchRssFeed         *)
(* (index.ts 1593-1627).                                                   *)

\* The items parseRssFeed finds in the feed, newest first.
RssItems == [k \in 1..12 |-> Item(k, 0, FALSE)]

RssExports ==
    {[source |-> "rss", url |-> u, limit |-> l, sortOrder |-> so, all |-> fl[1],
      includeContent |-> fl[2], feed |-> RssItems,
      env |-> [X402_PAY_TO |-> payTo,
               X402_BASE_PRICE |-> [set |-> FALSE, value |-> Dollar(0)]]] :
        payTo \in BOOLEAN,
        u \in {Absent, "https://example.com/feed.xml"},
        l \in {Absent, "2", "5", "2.5", "120", "0", "-1", "abc"},
        so \in {Absent, "oldest", "sideways"},
        fl \in FlagSpellings \X {Absent, "true"}}

\* The RssQueryParams of the handler, index.ts 1804-1810
rssQuery(r) ==
    [limit |-> itemCountOf(r.limit), all |-> lenientFlag(r.all),
     includeContent |-> lenientFlag(r.includeContent),
     sortOrder |-> IF Truthy(r.sortOrder) THEN r.sortOrder ELSE "newest"]

\* fetchRssFeed on a feed that was fetched and parsed, index.ts 1610-1626
rssItems(params, allItems) ==
    LET items == IF params.sortOrder = "oldest" THEN Reverse(allItems) ELSE allItems
    IN  IF ~params.all /\ TruthyNum(params.limit) THEN slice(items, params.limit.h)
        ELSE items

\* The handler, whole: it checks the url, waits for a slot, fetches the feed
\* (ok, not ok, or an exception) and answers.
ExportRss(outcome) ==
    /\ freq.source = "rss" /\ fpc = "handler"
    /\ fpc' = "done"
    /\ IF ~Truthy(freq.url)
       THEN /\ fres' = ExportError(400)
            /\ UNCHANGED <<globalRequests, endpointRequests, trace>>
       ELSE LET s == slotOutcome(globalRequests, endpointRequests, "rss:fetch", now)
            IN  /\ s.admitted
                /\ trace' = trace \o (IF outcome = "ok" THEN <<"waitForSlot", "fetch">>
                                       ELSE <<"waitForSlot", "fetch", "failed">>)
                /\ globalRequests' = s.globalRequests
                /\ endpointRequests' = s.endpointRequests
                /\ fres' = IF outcome = "ok"
                           THEN [status |-> 200, items |-> rssItems(rssQuery(freq), freq.feed)]
                           ELSE ExportError(500)
    /\ UNCHANGED <<freq, allCasts, cursor, parentHashes, batchAt, lookups, parentMap>>
    /\ UNCHANGED <<now, callers, calls, ticks, pricingVars, hookVars, quoteVars>>

-----------------------------------------------------------------------------
(* Git tree filter.  A path is the sequence of its "/"-separated segments, a
   segment a base name and an extension; a glob pattern is a sequence of
   pattern segments.  picomatch is a dependency of the server; isMatch
   follows its documented glob semantics with { dot: true } for the pattern
   shapes the inputs use: a literal segment, "*", "*.ext" and "**".        *)

Seg(base, ext) == [base |-> base, ext |-> ext]

Lit(base, ext) == [k |-> "lit", base |-> base, ext |-> ext]

Star == [k |-> "star", base |-> "", ext |-> ""]

StarExt(ext) == [k |-> "starext", base |-> "", ext |-> ext]

Globstar == [k |-> "globstar", base |-> "", ext |-> ""]

segMatch(seg, p) ==
    CASE p.k = "lit" -> seg.base = p.base /\ seg.ext = p.ext
      [] p.k = "star" -> TRUE
      [] p.k = "starext" -> seg.ext = p.ext
      [] OTHER -> FALSE

RECURSIVE isMatch(_, _)
isMatch(filePath, pattern) ==
    IF pattern = <<>> THEN filePath = <<>>
    ELSE IF Head(pattern).k = "globstar"
         THEN \/ isMatch(filePath, Tail(pattern))
              \/ filePath # <<>> /\ isMatch(Tail(filePath), pattern)
         ELSE /\ filePath # <<>>
              /\ segMatch(Head(filePath), Head(pattern))
              /\ isMatch(Tail(filePath), Tail(pattern))

\* patterns.some(pattern => picomatch.isMatch(filePath, pattern))
some(filePath, patterns) ==
    \E i \in 1..Len(patterns) : isMatch(filePath, patterns[i])

\* A pattern list is undefined (set = FALSE) or an array.
NoPatterns == [set |-> FALSE, list |-> <<>>]

Patterns(list) == [set |-> TRUE, list |-> list]

\* includePatterns && includePatterns.length > 0
nonEmpty(patterns) == patterns.set /\ Len(patterns.list) > 0

\* excludeApplies with a fault: an include match shields the path from the
\* exclude list.
excludeApplies_shielded(filePath, includePatterns, excludePatterns) ==
    /\ nonEmpty(excludePatterns)
    /\ ~nonEmpty(includePatterns)
    /\ some(filePath, excludePatterns.list)

\* The second half of matchesPatterns: the exclude list is consulted for
\* every path that reached it.
excludeApplies(filePath, includePatterns, excludePatterns) ==
    /\ nonEmpty(excludePatterns)
    /\ some(filePath, excludePatterns.list)

matchesPatterns(filePath, includePatterns, excludePatterns) ==
    LET included == IF nonEmpty(includePatterns)
                    THEN some(filePath, includePatterns.list)
                    ELSE TRUE
    IN  IF ~included THEN FALSE
        ELSE IF excludeApplies(filePath, includePatterns, excludePatterns)
             THEN FALSE
             ELSE TRUE

RECURSIVE filterSeq(_, _, _)
filterSeq(tree, includePatterns, excludePatterns) ==
    IF tree = <<>> THEN <<>>
    ELSE (IF matchesPatterns(Head(tree).path, includePatterns, excludePatterns)
          THEN <<Head(tree)>> ELSE <<>>)
         \o filterSeq(Tail(tree), includePatterns, excludePatterns)

filterTree(tree, includePatterns, excludePatterns) ==
    IF ~nonEmpty(includePatterns) /\ ~nonEmpty(excludePatterns)
    THEN tree
    ELSE filterSeq(tree, includePatterns, excludePatterns)

\* A tree entry as fetchGitHubRepo builds it; size is a JS number or
\* undefined (GitHub gives no size for a directory).
GitFile(path, type, size) == [path |-> path, type |-> type, size |-> size]

SrcATs == <<Seg("src", ""), Seg("a", "ts")>>

SrcBMd == <<Seg("src", ""), Seg("b", "md")>>

ReadmeMd == <<Seg("README", "md")>>

DotEnv == <<Seg(".env", "")>>

SrcDir == <<Seg("src", "")>>

FilterPaths == {SrcATs, SrcBMd, ReadmeMd, DotEnv, SrcDir}

SrcAll == <<Lit("src", ""), Globstar>>

AnyTs == <<Globstar, StarExt("ts")>>

TopMd == <<StarExt("md")>>

TopAny == <<Star>>

PatternLists ==
    {NoPatterns, Patterns(<<>>), Patterns(<<SrcAll>>), Patterns(<<AnyTs>>),
     Patterns(<<TopMd, SrcAll>>), Patterns(<<TopAny>>)}

RepoTree ==
    <<GitFile(ReadmeMd, "file", Num(100)), GitFile(SrcDir, "dir", Undefined),
      GitFile(SrcATs, "file", Num(2000)), GitFile(SrcBMd, "file", Num(0)),
      GitFile(DotEnv, "file", Num(40))>>

FilterInputs ==
    [source : {"filter"}, path : FilterPaths, tree : {RepoTree, <<>>},
     include : PatternLists, exclude : PatternLists]

\* One evaluation of matchesPatterns on the drawn path and of filterTree on
\* the drawn tree.
Filter ==
    /\ pin.source = "filter"
    /\ ~pout.done
    /\ pout' = [done |-> TRUE,
                matches |-> matchesPatterns(pin.path, pin.include, pin.exclude),
                filtered |-> filterTree(pin.tree, pin.include, pin.exclude)]
    /\ UNCHANGED <<hookVars, pin, limiterVars, quoteVars, fetchVars>>

-----------------------------------------------------------------------------
(* formatHierarchicalTree.  The nested object it builds is kept flat: one
   node per path that is a property somewhere below root, with the two
   fields render reads.  A node made on the way to a leaf is {} and renders
   as a directory.  The text is the sequence of its lines; a line is its
   prefix, its connector, the name and what follows the name.  Paths hold no
   empty part and no name starts with "_".                                 *)

MaxTreeEntries == 3

DocsDir == <<Seg("docs", "")>>

Node(path, isFile, size) == [path |-> path, isFile |-> isFile, size |-> size]

isPrefix(p, q) == Len(p) <= Len(q) /\ SubSeq(q, 1, Len(p)) = p

has(root, path) == \E nd \in root : nd.path = path

\* The inner loop for one item: missing objects on the way are created, the
\* last part is assigned a fresh leaf object.
insertItem(root, item) ==
    LET parts == item.path
        onTheWay == {Node(SubSeq(parts, 1, i), FALSE, Undefined) :
                        i \in {j \in 1..(Len(parts) - 1) :
                                  ~has(root, SubSeq(parts, 1, j))}}
        kept == {nd \in root : ~isPrefix(parts, nd.path)}
    IN  kept \cup onTheWay \cup {Node(parts, item.type = "file", item.size)}

RECURSIVE buildRoot(_, _)
buildRoot(root, tree) ==
    IF tree = <<>> THEN root
    ELSE buildRoot(insertItem(root, Head(tree)), Tail(tree))

\* a.localeCompare(b) on the names of the inputs, as a rank.
localeRank(name) ==
    CASE name = Seg(".env", "") -> 1
      [] name = Seg("a", "ts") -> 2
      [] name = Seg("b", "md") -> 3
      [] name = Seg("docs", "") -> 4
      [] name = Seg("README", "md") -> 5
      [] name = Seg("src", "") -> 6
      [] OTHER -> 7

nameOf(nd) == nd.path[Len(nd.path)]

\* The comparator of entries.sort: negative when a goes first.
goesBefore(a, b) ==
    IF (~a.isFile) # (~b.isFile) THEN ~a.isFile
    ELSE localeRank(nameOf(a)) < localeRank(nameOf(b))

RECURSIVE sortEntries(_)
sortEntries(entries) ==
    IF entries = {} THEN <<>>
    ELSE LET first == CHOOSE a \in entries :
                          \A b \in entries \ {a} : goesBefore(a, b)
         IN  <<first>> \o sortEntries(entries \ {first})

sizeSuffix(size) ==
    IF size.t = "num" /\ size.h # 0
    THEN <<" (", size.h \div 2, " bytes)">>
    ELSE <<>>

Line(prefix, connector, name, rest) ==
    [prefix |-> prefix, connector |-> connector, name |-> name, rest |-> rest]

RECURSIVE renderNode(_, _, _)
RECURSIVE renderEntries(_, _, _, _)
renderEntries(root, sorted, index, prefix) ==
    IF index > Len(sorted) THEN <<>>
    ELSE LET value == sorted[index]
             isLast == index = Len(sorted)
             connector == IF isLast THEN "+-- " ELSE "|-- "
             childPrefix == IF isLast THEN "    " ELSE "|   "
         IN  (IF value.isFile
              THEN <<Line(prefix, connector, nameOf(value), sizeSuffix(value.size))>>
              ELSE <<Line(prefix, connector, nameOf(value), <<"/">>)>>
                   \o renderNode(root, value.path, prefix \o <<childPrefix>>))
             \o renderEntries(root, sorted, index + 1, prefix)

renderNode(root, at, prefix) ==
    LET entries == {nd \in root : /\ Len(nd.path) = Len(at) + 1
                                  /\ isPrefix(at, nd.path)}
    IN  renderEntries(root, sortEntries(entries), 1, prefix)

formatHierarchicalTree(tree) == renderNode(buildRoot({}, tree), <<>>, <<>>)

TreePool ==
    {GitFile(ReadmeMd, "file", Num(100)), GitFile(SrcDir, "dir", Undefined),
     GitFile(SrcATs, "file", Num(2000)), GitFile(SrcBMd, "file", Num(0)),
     GitFile(DocsDir, "dir", Undefined)}

EntrySets ==
    {s \in SUBSET TreePool : Cardinality(s) \in 1..MaxTreeEntries}

Orderings(s) ==
    {q \in [1..Cardinality(s) -> s] : \A e \in s : \E i \in DOMAIN q : q[i] = e}

\* The same entries in two orders.
TreeInputs ==
    UNION {{[source |-> "tree", tree |-> o1, tree2 |-> o2] :
               o1 \in Orderings(s), o2 \in Orderings(s)} : s \in EntrySets}

FormatTree ==
    /\ pin.source = "tree"
    /\ ~pout.done
    /\ pout' = [done |-> TRUE,
                text |-> formatHierarchicalTree(pin.tree),
                text2 |-> formatHierarchicalTree(pin.tree2)]
    /\ UNCHANGED <<hookVars, pin, limiterVars, quoteVars, fetchVars>>

-----------------------------------------------------------------------------
(* fetchGitHubRepo, the tree and the file bodies.  The repository answered;
   the tree request and each content request succeed or not.  A body is
   kept by its length in bytes: the listed size where the tree gives one,
   else what the content request returned.                                 *)

DEFAULT_MAX_FILE_SIZE == 100000

textExtensions == {"md", "txt", "js", "ts", "json", "yaml", "sh"}

\* Body lengths the content request returns for an entry listed without size.
UnlistedBytes == {40, 200000}

\* maxFileSize: c.req.query("maxFileSize") ? Number(...) : undefined
maxFileSizeOf(s) == IF Truthy(s) THEN NumberOf(s) ELSE Undefined

\* (f.size || 0) <= maxSize, in halves
withinMaxSize(f, maxSize) == OrDefault(f.size, 0) <= maxSize

\* textExtensions.some(ext => f.path.toLowerCase().endsWith(ext))
isTextFile(f) == f.path[Len(f.path)].ext \in textExtensions

RECURSIVE selectFiles(_, _)
selectFiles(tree, maxSize) ==
    IF tree = <<>> THEN <<>>
    ELSE (IF /\ Head(tree).type = "file"
             /\ withinMaxSize(Head(tree), maxSize)
             /\ isTextFile(Head(tree))
          THEN <<Head(tree)>> ELSE <<>>) \o selectFiles(Tail(tree), maxSize)

\* filesToFetch with a fault: no limit on the number of files.
filesToFetch_all(tree, maxSize) == selectFiles(tree, maxSize)

\* .slice(0, 50)
filesToFetch(tree, maxSize) ==
    LET all == selectFiles(tree, maxSize)
    IN  SubSeq(all, 1, IF Len(all) < 50 THEN Len(all) ELSE 50)

RECURSIVE fetchContents(_, _, _)
fetchContents(toFetch, failing, unlisted) ==
    IF toFetch = <<>> THEN <<>>
    ELSE (IF Head(toFetch).path \in failing THEN <<>>
          ELSE <<[file |-> Head(toFetch),
                  content |-> IF Head(toFetch).size.t = "num"
                              THEN Head(toFetch).size.h \div 2
                              ELSE unlisted]>>)
         \o fetchContents(Tail(toFetch), failing, unlisted)

\* What fetchGitHubRepo returns of tree and files; tree is <<>> with
\* hasTree FALSE when it stays undefined.
fetchGitHubRepo(params, up) ==
    LET asked == params.includeTree \/ params.includeContent
        hasTree == asked /\ up.treeOk
        tree == IF hasTree
                THEN filterTree(up.rawTree, params.includePatterns, params.excludePatterns)
                ELSE <<>>
        maxSize == OrDefault(params.maxFileSize, DEFAULT_MAX_FILE_SIZE)
        files == IF params.includeContent /\ hasTree
                 THEN fetchContents(filesToFetch(tree, maxSize), up.failing, up.unlisted)
                 ELSE <<>>
    IN  [files |-> files,
         hasTree |-> params.includeTree /\ hasTree,
         tree |-> IF params.includeTree THEN tree ELSE <<>>]

\* fetchGitLabRepo, index.ts 2165-2248, from the tree request on: the
\* entries as the listing gives them, without a size, and no file bodies.
fetchGitLabRepo(params, up) ==
    LET hasTree == params.includeTree /\ up.treeOk
    IN  [files |-> <<>>,
         hasTree |-> hasTree,
         tree |-> IF hasTree
                  THEN [i \in 1..Len(up.rawTree) |->
                           GitFile(up.rawTree[i].path, up.rawTree[i].type, Undefined)]
                  ELSE <<>>]

\* fetchGitRepo, index.ts 2250-2266, for the two platforms the inputs use
fetchGitRepo(url, params, up) ==
    IF parseGitUrl(url) = "github" THEN fetchGitHubRepo(params, up)
    ELSE fetchGitLabRepo(params, up)

\* A tree with a file the listing gives no size for.
ListedTree ==
    RepoTree \o <<GitFile(<<Seg("vendor", ""), Seg("lib", "js")>>, "file", Undefined)>>

MaxFileSizes == {Absent, "0", "-1", "120", "50000", "abc"}

RepoInputs ==
    [source : {"repo"}, url : {"https://github.com/o/r", "https://gitlab.com/o/r"},
     includeContent : {Absent, "true"}, includeTree : {Absent, "true"},
     maxFileSize : MaxFileSizes,
     include : {NoPatterns, Patterns(<<SrcAll>>)},
     exclude : {NoPatterns, Patterns(<<AnyTs>>)},
     treeOk : BOOLEAN, failing : {{}, {ReadmeMd}}, unlisted : UnlistedBytes]

\* app.get("/git") for a url whose repository request succeeds.
ExportRepo ==
    /\ pin.source = "repo"
    /\ ~pout.done
    /\ LET q == [includeContent |-> lenientFlag(pin.includeContent),
                 includeTree |-> lenientFlag(pin.includeTree),
                 maxFileSize |-> maxFileSizeOf(pin.maxFileSize),
                 includePatterns |-> IF nonEmpty(pin.include) THEN pin.include ELSE NoPatterns,
                 excludePatterns |-> IF nonEmpty(pin.exclude) THEN pin.exclude ELSE NoPatterns]
           data == fetchGitRepo(pin.url, q, [treeOk |-> pin.treeOk, rawTree |-> ListedTree,
                                             failing |-> pin.failing, unlisted |-> pin.unlisted])
       IN  pout' = [done |-> TRUE, files |-> data.files, hasTree |-> data.hasTree,
                    tree |-> data.tree]
    /\ UNCHANGED <<hookVars, pin, limiterVars, quoteVars, fetchVars>>

-----------------------------------------------------------------------------
(* parseRssFeed on an RSS 2.0 document.  A document is the sequence of its
   tags and texts; the regular expressions of the parser see the tags
   wherever they stand, inside a comment or a CDATA section as well.  The
   documents drawn are not Atom feeds.                                     *)

MaxItems == 2

\* xml.includes("<feed") && xml.includes("xmlns=\"http://www.w3.org/2005/Atom\"")
isAtom(xml) ==
    \E i \in 1..Len(xml) : xml[i] = "<feed xmlns=\"http://www.w3.org/2005/Atom\">"

\* The tags /<item[^>]*>/i matches.
ItemOpen == {"<item>", "<item/>", "<items>"}

\* The smallest index from `from` on whose token is in `tokens`, 0 if none.
indexOf(text, tokens, from) ==
    IF \E i \in from..Len(text) : text[i] \in tokens
    THEN CHOOSE i \in from..Len(text) :
             /\ text[i] \in tokens
             /\ \A k \in from..(i - 1) : text[k] \notin tokens
    ELSE 0

\* xml.match(/<item[^>]*>[\s\S]*?<\/item>/gi) || []: from an opening tag to
\* the first closing tag after it, then on from there.
RECURSIVE itemMatches(_, _)
itemMatches(xml, from) ==
    LET open == indexOf(xml, ItemOpen, from)
        close == IF open = 0 THEN 0 ELSE indexOf(xml, {"</item>"}, open + 1)
    IN  IF close = 0 THEN <<>>
        ELSE <<SubSeq(xml, open, close)>> \o itemMatches(xml, close + 1)

\* s.trim(), on the texts the documents hold.
trim(s) ==
    CASE s = " Hello " -> "Hello"
      [] s = " " -> ""
      [] OTHER -> s

\* content.trim(): the first and the last text lose their outer blanks.
trimContent(content) ==
    LET n == Len(content)
    IN  IF n = 0 THEN content
        ELSE IF n = 1 THEN (IF trim(content[1]) = "" THEN <<>> ELSE <<trim(content[1])>>)
        ELSE content

\* .replace(/<!\[CDATA\[([\s\S]*?)\]\]>/g, "$1")
unwrapCdata(content) ==
    IF \E i \in 1..Len(content) : content[i] = "]]>"
    THEN SelectSeq(content, LAMBDA tok : tok \notin {"<![CDATA[", "]]>"})
    ELSE content

\* getTagContent(text, tag): undefined (found FALSE) without a match.
getTagContent(text, tag) ==
    LET open == indexOf(text, {"<" \o tag \o ">"}, 1)
        close == IF open = 0 THEN 0 ELSE indexOf(text, {"</" \o tag \o ">"}, open + 1)
    IN  IF close = 0 THEN [found |-> FALSE, value |-> <<>>]
        ELSE [found |-> TRUE,
              value |-> unwrapCdata(trimContent(SubSeq(text, open + 1, close - 1)))]

\* getTagContent(...) || ""
orEmpty(content) == IF content.found THEN content.value ELSE <<>>

\* The object built for one match.
rssItem(itemXml) ==
    [title |-> orEmpty(getTagContent(itemXml, "title")),
     link |-> orEmpty(getTagContent(itemXml, "link")),
     description |-> getTagContent(itemXml, "description"),
     pubDate |-> getTagContent(itemXml, "pubDate"),
     guid |-> getTagContent(itemXml, "guid")]

\* channelMatch?.[1] ?? xml
channelContent(xml) ==
    LET open == indexOf(xml, {"<channel>"}, 1)
        close == IF open = 0 THEN 0 ELSE indexOf(xml, {"</channel>"}, open + 1)
    IN  IF close = 0 THEN xml ELSE SubSeq(xml, open + 1, close - 1)

parseRss2Feed(xml) ==
    LET channel == channelContent(xml)
        matches == itemMatches(xml, 1)
        items == [i \in 1..Len(matches) |-> rssItem(matches[i])]
    IN  [feed |-> [title |-> orEmpty(getTagContent(channel, "title")),
                   link |-> orEmpty(getTagContent(channel, "link")),
                   itemCount |-> Len(items)],
         items |-> items]

\* parseRssFeed of a document that is not an Atom feed.
parseRssFeed(xml) == parseRss2Feed(xml)

\* The item elements a document is written from: the tokens of each, and how
\* many <item> elements they are.
Element(tokens, count, minimal) ==
    [tokens |-> tokens, count |-> count, minimal |-> minimal]

MinimalItem ==
    Element(<<"<item>", "<title>", "Hello", "</title>", "<link>", "https://example.com/1",
              "</link>", "<pubDate>", "Mon, 01 Jan 2024 00:00:00 GMT", "</pubDate>",
              "</item>">>, 1, TRUE)

ItemPool ==
    {MinimalItem,
     Element(<<"<item>", "<title>", "<![CDATA[", "Hello", "]]>", "</title>", "<guid>", "g2",
               "</guid>", "</item>">>, 1, FALSE),
     Element(<<"<item>", "<link>", "https://example.com/3", "</link>", "</item>">>, 1, FALSE),
     Element(<<"<item>", "</item>">>, 1, FALSE),
     Element(<<"<item>", "<title>", "How to write a feed", "</title>", "<description>",
               "<![CDATA[", "close with", "</item>", "and open the next with", "<item>",
               "]]>", "</description>", "</item>">>, 1, FALSE),
     Element(<<"<!--", "<item>", "<title>", "Retired", "</title>", "</item>", "-->">>,
             0, FALSE)}

ChannelHeads ==
    {<<>>, <<"<title>", "Feed", "</title>">>,
     <<"<title>", "Feed", "</title>", "<link>", "https://example.com", "</link>">>}

RECURSIVE tokensOf(_)
tokensOf(elements) ==
    IF elements = <<>> THEN <<>> ELSE Head(elements).tokens \o tokensOf(Tail(elements))

RECURSIVE elementCount(_)
elementCount(elements) ==
    IF elements = <<>> THEN 0 ELSE Head(elements).count + elementCount(Tail(elements))

document(head, elements) ==
    <<"<rss>", "<channel>">> \o head \o tokensOf(elements) \o <<"</channel>", "</rss>">>

FeedInputs ==
    {[source |-> "feed", head |-> h, elements |-> es] :
        h \in ChannelHeads,
        es \in UNION {[1..n -> ItemPool] : n \in 0..MaxItems}}

\* parseRssFeed(xml) on the drawn document.
ParseFeed ==
    /\ pin.source = "feed"
    /\ ~pout.done
    /\ ~isAtom(document(pin.head, pin.elements))
    /\ LET parsed == parseRssFeed(document(pin.head, pin.elements))
       IN  pout' = [done |-> TRUE, feed |-> parsed.feed, items |-> parsed.items]
    /\ UNCHANGED <<hookVars, pin, limiterVars, quoteVars, fetchVars>>

-----------------------------------------------------------------------------
(* The cache on its own: reads and writes of two keys while time passes.   *)

SomeKeys == {"user:alice", "storage:2"}

CachedData == {Num(2), Num(100)}

\* The ttl arguments the server passes: the default and 5 minutes.
Ttls == {60000, 300000}

NoRead == [done |-> FALSE, key |-> "", value |-> Null, at |-> 0, removed |-> FALSE]

\* getCached(key): what it returned, when, and whether it deleted an entry.
GetCached(key) ==
    /\ pin.source = "cache"
    /\ pout' = [done |-> TRUE, key |-> key, value |-> getCached(cache, key, now),
                at |-> now, removed |-> cache[key].set /\ Expired(cache, key, now)]
    /\ cache' = cacheAfterGet(cache, key, now)
    /\ UNCHANGED <<hookVars, pin, req, est, gate, limiterVars, fetchVars>>

\* setCache(key, data, ttl)
SetCache(key, data, ttl) ==
    /\ pin.source = "cache"
    /\ cache' = setCache(cache, key, data, ttl, now)
    /\ UNCHANGED <<hookVars, pin, pout, req, est, gate, limiterVars, fetchVars>>

-----------------------------------------------------------------------------
(* Parent resolution over several batches: a feed of replies to NumParents  *)
(* different parents, the first of them replied to twice.                   *)

FeedThreads ==
    << [k \in 1..(NumParents + 1) |->
            Item(k, IF k <= NumParents THEN 100 + k ELSE 101, FALSE)] >>

ThreadExports ==
    {[source |-> id[1], fid |-> id[2], username |-> Absent, handle |-> id[3], did |-> Absent,
      limit |-> Absent, sortOrder |-> Absent, all |-> all, includeReplies |-> "true",
      includeParents |-> "true", includeReactions |-> Absent, feed |-> FeedThreads,
      env |-> [X402_PAY_TO |-> FALSE,
               X402_BASE_PRICE |-> [set |-> FALSE, value |-> Dollar(0)]],
      user |-> "found", storage |-> [t |-> "used", used |-> Num(100)],
      profile |-> [t |-> "count", postsCount |-> Num(100)]] :
        id \in {<<"farcaster", "2", Absent>>, <<"bsky", Absent, "alice.bsky.social">>},
        all \in {Absent, "true"}}

\* The lookups that have asked and not been answered.
Pending == {h \in ParentRefs : lookups[h] = "pending"}

\* The upstream answers the lookups of a batch in any order; here the next
\* answer is for the first or the last of those still pending, and what the
\* upstream says about a parent depends on the parent alone.
NextAnswers ==
    {h \in Pending : \A other \in Pending : h <= other} \cup
    {h \in Pending : \A other \in Pending : h >= other}

AnswerFor(h) ==
    CASE h % 3 = 0 -> "throws"
      [] h % 3 = 1 -> "null"
      [] OTHER -> "ok"

-----------------------------------------------------------------------------
(* The content loop of fetchGitHubRepo (index.ts 2116-2147) turn by turn,   *)
(* on a repository with more text files than the loop fetches.              *)

ManyFiles == 52

FilePath(k) == <<Seg("src", ""), Seg(ToString(k), "ts")>>

BigTree ==
    <<GitFile(SrcDir, "dir", Undefined)>> \o
    [k \in 1..ManyFiles |-> GitFile(FilePath(k), "file", Num(100))]

\* The content requests the upstream does not answer with a body, and how:
\* a status that is not ok, or an exception.
ContentInputs ==
    [source : {"contents"}, includeContent : {Absent, "true"}, includeTree : {Absent, "true"},
     maxFileSize : {Absent, "120"},
     include : {NoPatterns, Patterns(<<SrcAll>>)},
     failing : {{}, {FilePath(3)}, {FilePath(1), FilePath(50), FilePath(51)}},
     failure : {"notok", "throws"}]

NoContents ==
    [started |-> FALSE, done |-> FALSE, status |-> 0, queue |-> <<>>, at |-> 0,
     inflight |-> FALSE, files |-> <<>>]

\* fetchGitHubRepo up to the loop: the filtered tree and filesToFetch.
ContentsStart ==
    /\ pin.source = "contents" /\ ~pout.started
    /\ LET maxSize == OrDefault(maxFileSizeOf(pin.maxFileSize), DEFAULT_MAX_FILE_SIZE)
           tree == filterTree(BigTree, pin.include, NoPatterns)
       IN  pout' = [pout EXCEPT !.started = TRUE,
                                !.queue = IF lenientFlag(pin.includeContent)
                                          THEN filesToFetch(tree, maxSize) ELSE <<>>]
    /\ UNCHANGED <<hookVars, pin, limiterVars, quoteVars, fetchVars>>

\* for (const file of filesToFetch): await waitForSlot("github:content"),
\* then the content request goes out.
ContentsAsk ==
    /\ pin.source = "contents" /\ pout.started /\ ~pout.done /\ ~pout.inflight
    /\ pout.at < Len(pout.queue)
    /\ LET s == slotOutcome(globalRequests, endpointRequests, "github:content", now)
       IN  /\ s.admitted
           /\ globalRequests' = s.globalRequests
           /\ endpointRequests' = s.endpointRequests
    /\ pout' = [pout EXCEPT !.inflight = TRUE, !.at = pout.at + 1]
    /\ trace' = trace \o <<"waitForSlot", "fetch">>
    /\ UNCHANGED <<hookVars, pin, now, callers, calls, ticks, quoteVars>>
    /\ UNCHANGED <<freq, fpc, allCasts, cursor, parentHashes, batchAt, lookups, parentMap, fres>>

\* The content request answers: a body, which is pushed onto files, or a
\* status that is not ok or an exception, which the loop passes over.
ContentsAnswer ==
    /\ pin.source = "contents" /\ pout.inflight
    /\ LET file == pout.queue[pout.at]
       IN  IF file.path \in pin.failing
           THEN /\ pout' = [pout EXCEPT !.inflight = FALSE]
                /\ trace' = IF pin.failure = "throws" THEN Append(trace, "failed") ELSE trace
           ELSE /\ pout' = [pout EXCEPT !.inflight = FALSE,
                                        !.files = Append(pout.files, [file |-> file,
                                                                      content |-> file.size.h \div 2])]
                /\ trace' = trace
    /\ UNCHANGED <<hookVars, pin, limiterVars, quoteVars>>
    /\ UNCHANGED <<freq, fpc, allCasts, cursor, parentHashes, batchAt, lookups, parentMap, fres>>

\* The loop is over: fetchGitHubRepo returns and the handler answers 200.
ContentsDone ==
    /\ pin.source = "contents" /\ pout.started /\ ~pout.done /\ ~pout.inflight
    /\ pout.at = Len(pout.queue)
    /\ pout' = [pout EXCEPT !.done = TRUE, !.status = 200]
    /\ UNCHANGED <<hookVars, pin, limiterVars, quoteVars, fetchVars>>

-----------------------------------------------------------------------------
(* A route as a whole: the payment middleware of a source, the gate's       *)
(* answer, and the export handler up to the call of its source adapter.    *)

middlewareOf(r, c, t) ==
    CASE r.source = "farcaster" -> gateFarcaster(r, c, t)
      [] r.source = "bsky" -> [res |-> gateBsky(r), cache |-> c, calls |-> gateBskyCalls(r)]
      [] r.source = "rss" -> [res |-> gateRss(r), cache |-> c, calls |-> gateRssCalls(r)]
      [] OTHER -> [res |-> gateGit(r), cache |-> c, calls |-> gateGitCalls(r)]

\* The adapter call of each handler, index.ts 1204, 1414, 1812, 2541
adapterOf(r) ==
    CASE r.source = "farcaster" -> "fetchUserData"
      [] r.source = "bsky" -> "fetchBskyUserData"
      [] r.source = "rss" -> "fetchRssFeed"
      [] OTHER -> "fetchGitRepo"

Adapters == {"fetchUserData", "fetchBskyUserData", "fetchRssFeed", "fetchGitRepo"}

\* A request of the estimate and gate model as the export handlers read it:
\* with no sortOrder in the query.
asExport(r) == [k \in DOMAIN r \cup {"sortOrder"} |-> IF k \in DOMAIN r THEN r[k] ELSE Absent]

\* The status a handler answers with before it calls its adapter, or 0.
handlerRejects(r) ==
    IF r.source \in {"farcaster", "bsky"} THEN validateExport(asExport(r))
    ELSE IF ~Truthy(r.url) THEN 400 ELSE 0

\* app.use(route): the middleware passes the request on, or prices it and
\* hands it to paymentMiddleware, which calls the handler for a request that
\* carries a payment and answers 402 for one that does not.
RouteMiddleware(paid) ==
    /\ req.source \in {"farcaster", "bsky", "rss", "git"} /\ fpc = "idle"
    /\ LET out == middlewareOf(req, cache, now)
       IN  /\ gate' = out.res
           /\ cache' = out.cache
           /\ IF out.res.decision = "next"
              THEN /\ fpc' = "handler" /\ fres' = fres
                   /\ trace' = trace \o out.calls
              ELSE /\ trace' = trace \o out.calls \o
                                 <<"paymentMiddleware",
                                   IF paid THEN "proceed" ELSE "payment required">>
                   /\ IF paid THEN fpc' = "handler" /\ fres' = fres
                      ELSE fpc' = "done" /\ fres' = ExportError(402)
    /\ UNCHANGED <<req, est, limiterVars, pricingVars, hookVars>>
    /\ UNCHANGED <<freq, allCasts, cursor, parentHashes, batchAt, lookups, parentMap>>

\* app.get(route): the handler checks the query and calls its adapter.
RouteHandler ==
    /\ req.source \in {"farcaster", "bsky", "rss", "git"} /\ fpc = "handler"
    /\ fpc' = "done"
    /\ IF handlerRejects(req) # 0
       THEN /\ trace' = Append(trace, "handler")
            /\ fres' = ExportError(handlerRejects(req))
       ELSE /\ trace' = trace \o <<"handler", adapterOf(req)>>
            /\ fres' = [status |-> 200, items |-> <<>>]
    /\ UNCHANGED <<quoteVars, limiterVars, pricingVars, hookVars>>
    /\ UNCHANGED <<freq, allCasts, cursor, parentHashes, batchAt, lookups, parentMap>>

-----------------------------------------------------------------------------
(* The usePricing hook of the shared client package.  The module holds     *)
(* cachedPricing and cachePromise; each mounted hook holds pricing,        *)
(* loading and error.  A promise is named by the number of the request     *)
(* that created it.                                                        *)

Hooks == 1..NumHooks

Requests == 1..MaxRequests

NoPricing == "null"

NoPromises == [p \in Requests |-> "none"]

Unmounted == [pc |-> "unmounted", pricing |-> NoPricing, loading |-> FALSE, error |-> FALSE,
              awaits |-> 0]

NoHooks == [h \in Hooks |-> Unmounted]

\* needsRequest with a fault: every hook that finds no data asks for it.
needsRequest_always(promise) == TRUE

\* if (!cachePromise)
needsRequest(promise) == promise = 0

\* The first render: useState(cachedPricing), useState(!cachedPricing),
\* useState(null).
Render(h) ==
    /\ hooks[h].pc = "unmounted"
    /\ hooks' = [hooks EXCEPT ![h] = [pc |-> "rendered", pricing |-> cachedPricing,
                                      loading |-> cachedPricing = NoPricing,
                                      error |-> FALSE, awaits |-> 0]]
    /\ UNCHANGED <<cachedPricing, cachePromise, promises>>
    /\ UNCHANGED <<limiterVars, pricingVars, quoteVars, fetchVars>>

\* The effect: with data cached it sets it; else it makes the request unless
\* one was made, and awaits cachePromise.
Effect(h) ==
    /\ hooks[h].pc = "rendered"
    /\ IF cachedPricing # NoPricing
       THEN /\ hooks' = [hooks EXCEPT ![h].pc = "done", ![h].pricing = cachedPricing,
                                      ![h].loading = FALSE]
            /\ UNCHANGED <<cachePromise, promises>>
       ELSE IF needsRequest(cachePromise)
            THEN \E p \in Requests :
                    /\ promises[p] = "none"
                    /\ \A q \in Requests : q < p => promises[q] # "none"
                    /\ promises' = [promises EXCEPT ![p] = "pending"]
                    /\ cachePromise' = p
                    /\ hooks' = [hooks EXCEPT ![h].pc = "waiting", ![h].awaits = p]
            ELSE /\ hooks' = [hooks EXCEPT ![h].pc = "waiting", ![h].awaits = cachePromise]
                 /\ UNCHANGED <<cachePromise, promises>>
    /\ UNCHANGED cachedPricing
    /\ UNCHANGED <<limiterVars, pricingVars, quoteVars, fetchVars>>

\* The request of promise p is answered: with the data, which is cached, or
\* with a status that is not ok or a failure, after which cachePromise is
\* null again and the promise is rejected.
Respond(p, ok) ==
    /\ promises[p] = "pending"
    /\ IF ok
       THEN /\ cachedPricing' = "data"
            /\ promises' = [promises EXCEPT ![p] = "fulfilled"]
            /\ UNCHANGED cachePromise
       ELSE /\ cachePromise' = 0
            /\ promises' = [promises EXCEPT ![p] = "rejected"]
            /\ UNCHANGED cachedPricing
    /\ UNCHANGED hooks
    /\ UNCHANGED <<limiterVars, pricingVars, quoteVars, fetchVars>>

\* The handlers a hook attached to the promise it awaits run.
Notify(h) ==
    /\ hooks[h].pc = "waiting"
    /\ promises[hooks[h].awaits] \in {"fulfilled", "rejected"}
    /\ hooks' = [hooks EXCEPT ![h] =
           IF promises[hooks[h].awaits] = "fulfilled"
           THEN [hooks[h] EXCEPT !.pc = "done", !.pricing = "data", !.loading = FALSE]
           ELSE [hooks[h] EXCEPT !.pc = "done", !.error = TRUE, !.loading = FALSE]]
    /\ UNCHANGED <<cachedPricing, cachePromise, promises>>
    /\ UNCHANGED <<limiterVars, pricingVars, quoteVars, fetchVars>>

-----------------------------------------------------------------------------
(* Specifications.                                                         *)

\* The rate limiter under concurrent callers.  It starts as constructed, or
\* after a burst of admissions at the first instant that stays within both
\* ceilings.
InitLimiter ==
    /\ now = 1
    /\ \E pre \in [LimiterEndpoints -> PreloadCounts] :
         LET a == pre["/v2/farcaster/feed/user/casts"]
             b == pre["/v2/farcaster/cast"]
         IN  /\ a + b <= GLOBAL_LIMIT
             /\ globalRequests = Stamps(a + b, 1)
             /\ endpointRequests = [e \in Endpoints |->
                                       IF e \in LimiterEndpoints THEN Stamps(pre[e], 1)
                                       ELSE <<>>]
    /\ callers = IdleCallers
    /\ calls = 0
    /\ cachedPricing = NoPricing
    /\ cachePromise = 0
    /\ promises = NoPromises
    /\ hooks = NoHooks
    /\ ticks = 0
    /\ pin = NoInput
    /\ pout = NoOutput
    /\ req = NoRequest
    /\ cache = EmptyCache
    /\ est = NoResponse
    /\ gate = NoDecision
    /\ freq = NoRequest
    /\ fpc = "idle"
    /\ allCasts = <<>>
    /\ cursor = 0
    /\ parentHashes = <<>>
    /\ batchAt = 0
    /\ lookups = NoLookups
    /\ parentMap = {}
    /\ fres = NoExport
    /\ trace = <<>>

NextLimiter ==
    \/ \E c \in Callers, e \in LimiterEndpoints : Call(c, e)
    \/ \E c \in Callers : Wake(c)
    \/ \E d \in TickSteps : Tick(d)

SpecLimiter == InitLimiter /\ [][NextLimiter]_vars

\* The limiter with the event loop at work: time reaches every timer that is
\* set, and a timer that is due fires.
NextLimiterLive ==
    \/ \E c \in Callers, e \in LimiterEndpoints : Call(c, e)
    \/ \E c \in Callers : Wake(c)
    \/ Elapse

SpecLimiterLive ==
    /\ InitLimiter
    /\ [][NextLimiterLive]_vars
    /\ WF_vars(Elapse)
    /\ \A c \in Callers : WF_vars(Wake(c))

\* The pricing functions on drawn arguments.
InitPricing ==
    /\ pin \in SocialInputs \cup RssInputs \cup GitInputs \cup ExampleInputs
    /\ pout = NoOutput
    /\ now = 1
    /\ globalRequests = <<>>
    /\ endpointRequests = [e \in Endpoints |-> <<>>]
    /\ callers = IdleCallers
    /\ calls = 0
    /\ cachedPricing = NoPricing
    /\ cachePromise = 0
    /\ promises = NoPromises
    /\ hooks = NoHooks
    /\ ticks = 0
    /\ req = NoRequest
    /\ cache = EmptyCache
    /\ est = NoResponse
    /\ gate = NoDecision
    /\ freq = NoRequest
    /\ fpc = "idle"
    /\ allCasts = <<>>
    /\ cursor = 0
    /\ parentHashes = <<>>
    /\ batchAt = 0
    /\ lookups = NoLookups
    /\ parentMap = {}
    /\ fres = NoExport
    /\ trace = <<>>

NextPricing ==
    \/ PriceSocial
    \/ PriceRss
    \/ PriceGit
    \/ PriceExample

SpecPricing == InitPricing /\ [][NextPricing]_vars

\* The estimate endpoint and the payment middleware on one request, in either
\* order, the cache shared between them and time passing.
InitQuote ==
    /\ req \in FarcasterRequests \cup BskyRequests \cup RssRequests \cup GitRequests
    /\ cache = EmptyCache
    /\ est = NoResponse
    /\ gate = NoDecision
    /\ now = 1
    /\ ticks = 0
    /\ globalRequests = <<>>
    /\ endpointRequests = [e \in Endpoints |-> <<>>]
    /\ callers = IdleCallers
    /\ calls = 0
    /\ cachedPricing = NoPricing
    /\ cachePromise = 0
    /\ promises = NoPromises
    /\ hooks = NoHooks
    /\ pin = NoInput
    /\ pout = NoOutput
    /\ freq = NoRequest
    /\ fpc = "idle"
    /\ allCasts = <<>>
    /\ cursor = 0
    /\ parentHashes = <<>>
    /\ batchAt = 0
    /\ lookups = NoLookups
    /\ parentMap = {}
    /\ fres = NoExport
    /\ trace = <<>>

NextQuote ==
    \/ EstimateFarcaster
    \/ GateFarcaster
    \/ EstimateBsky
    \/ GateBsky
    \/ EstimateRss
    \/ GateRss
    \/ EstimateGit
    \/ GateGit
    \/ \E d \in TickSteps : Tick(d)

SpecQuote == InitQuote /\ [][NextQuote]_vars

\* One export request, from the handler to its response.
InitFetch ==
    /\ freq \in SocialExports \cup RssExports
    /\ fpc = "idle"
    /\ allCasts = <<>>
    /\ cursor = 0
    /\ parentHashes = <<>>
    /\ batchAt = 0
    /\ lookups = NoLookups
    /\ parentMap = {}
    /\ fres = NoExport
    /\ trace = <<>>
    /\ now = 1
    /\ ticks = 0
    /\ globalRequests = <<>>
    /\ endpointRequests = [e \in Endpoints |-> <<>>]
    /\ callers = IdleCallers
    /\ calls = 0
    /\ cachedPricing = NoPricing
    /\ cachePromise = 0
    /\ promises = NoPromises
    /\ hooks = NoHooks
    /\ pin = NoInput
    /\ pout = NoOutput
    /\ req = NoRequest
    /\ cache = EmptyCache
    /\ est = NoResponse
    /\ gate = NoDecision

NextFetch ==
    \/ \E paid \in BOOLEAN : Middleware(paid)
    \/ \E found \in BOOLEAN, profile \in BOOLEAN : ExportStart(found, profile)
    \/ FetchPage
    \/ FetchPageFails
    \/ \E h \in ParentRefs, outcome \in {"ok", "null", "throws"} : ParentAnswer(h, outcome)
    \/ BatchDone
    \/ \E outcome \in {"ok", "notok", "throws"} : ExportRss(outcome)

SpecFetch == InitFetch /\ [][NextFetch]_vars

InitFilter ==
    /\ pin \in FilterInputs
    /\ pout = NoOutput
    /\ now = 1
    /\ ticks = 0
    /\ globalRequests = <<>>
    /\ endpointRequests = [e \in Endpoints |-> <<>>]
    /\ callers = IdleCallers
    /\ calls = 0
    /\ cachedPricing = NoPricing
    /\ cachePromise = 0
    /\ promises = NoPromises
    /\ hooks = NoHooks
    /\ req = NoRequest
    /\ cache = EmptyCache
    /\ est = NoResponse
    /\ gate = NoDecision
    /\ freq = NoRequest
    /\ fpc = "idle"
    /\ allCasts = <<>>
    /\ cursor = 0
    /\ parentHashes = <<>>
    /\ batchAt = 0
    /\ lookups = NoLookups
    /\ parentMap = {}
    /\ fres = NoExport
    /\ trace = <<>>

NextFilter == Filter

SpecFilter == InitFilter /\ [][NextFilter]_vars

InitTree ==
    /\ pin \in TreeInputs
    /\ pout = NoOutput
    /\ now = 1
    /\ ticks = 0
    /\ globalRequests = <<>>
    /\ endpointRequests = [e \in Endpoints |-> <<>>]
    /\ callers = IdleCallers
    /\ calls = 0
    /\ cachedPricing = NoPricing
    /\ cachePromise = 0
    /\ promises = NoPromises
    /\ hooks = NoHooks
    /\ req = NoRequest
    /\ cache = EmptyCache
    /\ est = NoResponse
    /\ gate = NoDecision
    /\ freq = NoRequest
    /\ fpc = "idle"
    /\ allCasts = <<>>
    /\ cursor = 0
    /\ parentHashes = <<>>
    /\ batchAt = 0
    /\ lookups = NoLookups
    /\ parentMap = {}
    /\ fres = NoExport
    /\ trace = <<>>

NextTree == FormatTree

SpecTree == InitTree /\ [][NextTree]_vars

InitRepo ==
    /\ pin \in RepoInputs
    /\ pout = NoOutput
    /\ now = 1
    /\ ticks = 0
    /\ globalRequests = <<>>
    /\ endpointRequests = [e \in Endpoints |-> <<>>]
    /\ callers = IdleCallers
    /\ calls = 0
    /\ cachedPricing = NoPricing
    /\ cachePromise = 0
    /\ promises = NoPromises
    /\ hooks = NoHooks
    /\ req = NoRequest
    /\ cache = EmptyCache
    /\ est = NoResponse
    /\ gate = NoDecision
    /\ freq = NoRequest
    /\ fpc = "idle"
    /\ allCasts = <<>>
    /\ cursor = 0
    /\ parentHashes = <<>>
    /\ batchAt = 0
    /\ lookups = NoLookups
    /\ parentMap = {}
    /\ fres = NoExport
    /\ trace = <<>>

NextRepo == ExportRepo

SpecRepo == InitRepo /\ [][NextRepo]_vars

InitFeed ==
    /\ pin \in FeedInputs
    /\ pout = NoOutput
    /\ now = 1
    /\ ticks = 0
    /\ globalRequests = <<>>
    /\ endpointRequests = [e \in Endpoints |-> <<>>]
    /\ callers = IdleCallers
    /\ calls = 0
    /\ cachedPricing = NoPricing
    /\ cachePromise = 0
    /\ promises = NoPromises
    /\ hooks = NoHooks
    /\ req = NoRequest
    /\ cache = EmptyCache
    /\ est = NoResponse
    /\ gate = NoDecision
    /\ freq = NoRequest
    /\ fpc = "idle"
    /\ allCasts = <<>>
    /\ cursor = 0
    /\ parentHashes = <<>>
    /\ batchAt = 0
    /\ lookups = NoLookups
    /\ parentMap = {}
    /\ fres = NoExport
    /\ trace = <<>>

NextFeed == ParseFeed

SpecFeed == InitFeed /\ [][NextFeed]_vars

InitHooks ==
    /\ cachedPricing = NoPricing
    /\ cachePromise = 0
    /\ promises = NoPromises
    /\ hooks = NoHooks
    /\ pin = NoInput
    /\ pout = NoOutput
    /\ now = 1
    /\ ticks = 0
    /\ globalRequests = <<>>
    /\ endpointRequests = [e \in Endpoints |-> <<>>]
    /\ callers = IdleCallers
    /\ calls = 0
    /\ req = NoRequest
    /\ cache = EmptyCache
    /\ est = NoResponse
    /\ gate = NoDecision
    /\ freq = NoRequest
    /\ fpc = "idle"
    /\ allCasts = <<>>
    /\ cursor = 0
    /\ parentHashes = <<>>
    /\ batchAt = 0
    /\ lookups = NoLookups
    /\ parentMap = {}
    /\ fres = NoExport
    /\ trace = <<>>

NextHooks ==
    \/ \E h \in Hooks : Render(h)
    \/ \E h \in Hooks : Effect(h)
    \/ \E p \in Requests, ok \in BOOLEAN : Respond(p, ok)
    \/ \E h \in Hooks : Notify(h)

SpecHooks == InitHooks /\ [][NextHooks]_vars

InitRoute ==
    /\ req \in FarcasterRequests \cup BskyRequests \cup RssRequests \cup GitRequests
    /\ cache = EmptyCache
    /\ est = NoResponse
    /\ gate = NoDecision
    /\ pin = NoInput
    /\ pout = NoOutput
    /\ now = 1
    /\ ticks = 0
    /\ globalRequests = <<>>
    /\ endpointRequests = [e \in Endpoints |-> <<>>]
    /\ callers = IdleCallers
    /\ calls = 0
    /\ cachedPricing = NoPricing
    /\ cachePromise = 0
    /\ promises = NoPromises
    /\ hooks = NoHooks
    /\ freq = NoRequest
    /\ fpc = "idle"
    /\ allCasts = <<>>
    /\ cursor = 0
    /\ parentHashes = <<>>
    /\ batchAt = 0
    /\ lookups = NoLookups
    /\ parentMap = {}
    /\ fres = NoExport
    /\ trace = <<>>

NextRoute ==
    \/ \E paid \in BOOLEAN : RouteMiddleware(paid)
    \/ RouteHandler

SpecRoute == InitRoute /\ [][NextRoute]_vars

InitContents ==
    /\ pin \in ContentInputs
    /\ pout = NoContents
    /\ now = 1
    /\ ticks = 0
    /\ globalRequests = <<>>
    /\ endpointRequests = [e \in Endpoints |-> <<>>]
    /\ callers = IdleCallers
    /\ calls = 0
    /\ cachedPricing = NoPricing
    /\ cachePromise = 0
    /\ promises = NoPromises
    /\ hooks = NoHooks
    /\ req = NoRequest
    /\ cache = EmptyCache
    /\ est = NoResponse
    /\ gate = NoDecision
    /\ freq = NoRequest
    /\ fpc = "idle"
    /\ allCasts = <<>>
    /\ cursor = 0
    /\ parentHashes = <<>>
    /\ batchAt = 0
    /\ lookups = NoLookups
    /\ parentMap = {}
    /\ fres = NoExport
    /\ trace = <<>>

NextContents ==
    \/ ContentsStart
    \/ ContentsAsk
    \/ ContentsAnswer
    \/ ContentsDone

SpecContents == InitContents /\ [][NextContents]_vars

InitParents ==
    /\ freq \in ThreadExports
    /\ fpc = "idle"
    /\ allCasts = <<>>
    /\ cursor = 0
    /\ parentHashes = <<>>
    /\ batchAt = 0
    /\ lookups = NoLookups
    /\ parentMap = {}
    /\ fres = NoExport
    /\ trace = <<>>
    /\ now = 1
    /\ ticks = 0
    /\ globalRequests = <<>>
    /\ endpointRequests = [e \in Endpoints |-> <<>>]
    /\ callers = IdleCallers
    /\ calls = 0
    /\ cachedPricing = NoPricing
    /\ cachePromise = 0
    /\ promises = NoPromises
    /\ hooks = NoHooks
    /\ pin = NoInput
    /\ pout = NoOutput
    /\ req = NoRequest
    /\ cache = EmptyCache
    /\ est = NoResponse
    /\ gate = NoDecision

NextParents ==
    \/ \E paid \in BOOLEAN : Middleware(paid)
    \/ \E found \in BOOLEAN, profile \in BOOLEAN : ExportStart(found, profile)
    \/ FetchPage
    \/ FetchPageFails
    \/ \E h \in NextAnswers : ParentAnswer(h, AnswerFor(h))
    \/ BatchDone

SpecParents == InitParents /\ [][NextParents]_vars

InitCache ==
    /\ pin = [source |-> "cache"]
    /\ pout = NoRead
    /\ now = 1
    /\ ticks = 0
    /\ globalRequests = <<>>
    /\ endpointRequests = [e \in Endpoints |-> <<>>]
    /\ callers = IdleCallers
    /\ calls = 0
    /\ cachedPricing = NoPricing
    /\ cachePromise = 0
    /\ promises = NoPromises
    /\ hooks = NoHooks
    /\ req = NoRequest
    /\ cache = EmptyCache
    /\ est = NoResponse
    /\ gate = NoDecision
    /\ freq = NoRequest
    /\ fpc = "idle"
    /\ allCasts = <<>>
    /\ cursor = 0
    /\ parentHashes = <<>>
    /\ batchAt = 0
    /\ lookups = NoLookups
    /\ parentMap = {}
    /\ fres = NoExport
    /\ trace = <<>>

NextCache ==
    \/ \E key \in SomeKeys : GetCached(key)
    \/ \E key \in SomeKeys, data \in CachedData, ttl \in Ttls : SetCache(key, data, ttl)
    \/ \E d \in TickSteps : Tick(d)

SpecCache == InitCache /\ [][NextCache]_vars

-----------------------------------------------------------------------------
(* Claims.                                                                 *)

\* The timestamps of a list that lie in the 60-second window ending at t.
InWindow(requests, t) ==
    Len(SelectSeq(requests, LAMBDA timestamp : timestamp <= t /\ t - timestamp < WINDOW_MS))

\* C1: at every instant the global list holds at most 450 timestamps of the
\* trailing 60-second window, and every endpoint's list at most 250.
C1_WindowCeilings ==
    /\ InWindow(globalRequests, now) <= 450
    /\ \A e \in Endpoints : InWindow(endpointRequests[e], now) <= 250

\* C1 witness: a caller is suspended on a full global window while another
\* has been admitted.
C1_Witness ==
    /\ InWindow(globalRequests, now) = 450
    /\ \E c \in Callers : callers[c].pc = "suspended"
    /\ \E c \in Callers : callers[c].pc = "admitted"

\* C8: with no premium flag, isFreeTier is true for limit = 10 and false for
\* limit = 11, and isRssFreeTier is true for itemCount = 5 and false for 6.
C8_FreeTierBoundary ==
    pout.done =>
      /\ (pin.source = "social" /\ ~pin.all /\ ~pin.includeReplies /\ ~pin.includeParents) =>
            /\ (pin.limit = Num(10) => pout.free)
            /\ (pin.limit = Num(11) => ~pout.free)
            /\ (pin.limit2 = Num(10) => pout.free2)
            /\ (pin.limit2 = Num(11) => ~pout.free2)
      /\ (pin.source = "rss" /\ ~pin.all /\ ~pin.includeContent) =>
            /\ (pin.limit = Num(5) => pout.free)
            /\ (pin.limit = Num(6) => ~pout.free)
            /\ (pin.limit2 = Num(5) => pout.free2)
            /\ (pin.limit2 = Num(6) => ~pout.free2)

\* C8 witness: isFreeTier has answered for limit 10 (free) and for limit 11
\* (not free) of a request with no premium flag.
C8_Witness ==
    /\ pout.done /\ pin.source = "social"
    /\ ~pin.all /\ ~pin.includeReplies /\ ~pin.includeParents
    /\ pin.limit = Num(10) /\ pin.limit2 = Num(11)
    /\ pout.free /\ ~pout.free2

\* Two numeric limits of one priced request, the first at least lo (twice the
\* bound) and at most the second.
OrderedLimits(lo) ==
    /\ pout.done /\ pin.source \in {"social", "rss"}
    /\ pin.limit.t = "num" /\ pin.limit2.t = "num"
    /\ lo <= pin.limit.h /\ pin.limit.h <= pin.limit2.h

\* C9 as stated: for numeric limits 0 <= l1 <= l2 and all else equal, the
\* price for l1 is at most the price for l2.
C9_MonotoneFromZero ==
    OrderedLimits(0) => parseDollarPrice(pout.price) <= parseDollarPrice(pout.price2)

\* C9 amended: for numeric limits 0 < l1 <= l2 and all else equal, the price
\* for l1 is at most the price for l2.
C9_MonotoneAboveZero ==
    OrderedLimits(1) => parseDollarPrice(pout.price) <= parseDollarPrice(pout.price2)

\* C9 witness: two positive limits whose prices differ, the lower limit
\* priced above the base price.
C9_Witness ==
    /\ OrderedLimits(1) /\ pin.source = "social" /\ ~pin.all
    /\ parseDollarPrice(pout.price) > pin.basePrice
    /\ parseDollarPrice(pout.price) < parseDollarPrice(pout.price2)

\* C10 as stated: a request that is not free tier is never priced below the
\* base price (for Git, nor below 0.0001) once rounded to 6 decimal places,
\* and a free-tier request is priced exactly "$0".
C10_NeverBelowBase ==
    pout.done =>
      /\ pout.free => pout.price = Dollar(0)
      /\ ~pout.free =>
            /\ parseDollarPrice(pout.price) >= pin.basePrice
            /\ pin.source = "git" => parseDollarPrice(pout.price) >= GIT_PRICING.minPrice

\* C10 amended: a request that is not free tier is never priced below the
\* base price rounded to 6 decimal places (for Git, nor below 0.0001), and a
\* free-tier request is priced exactly "$0".
C10_NeverBelowRoundedBase ==
    pout.done =>
      /\ pout.free => pout.price = Dollar(0)
      /\ ~pout.free =>
            /\ pout.price[2] >= Round6(pin.basePrice)
            /\ pin.source = "git" => parseDollarPrice(pout.price) >= GIT_PRICING.minPrice

\* C10 witness: a request that is not free tier, priced at a base price of
\* $0.0025 that exceeds its computed cost.
C10_Witness ==
    /\ pout.done /\ ~pout.free
    /\ pin.basePrice = 25000
    /\ pout.price = Dollar(2500)

\* Both paths have answered req: the estimate endpoint with a price, the
\* payment middleware by handing a price to the gate.
BothPriced ==
    /\ est.status = 200 /\ ~est.isFree
    /\ gate.decision = "gate"

\* Every boolean flag of req is absent or spelled "true", the spellings that
\* the estimate endpoint and the middleware read alike.
PlainFlags ==
    \A k \in {"all", "includeReplies", "includeParents", "includeReactions",
              "includeContent", "includeTree"} :
        k \in DOMAIN req => req[k] \in {Absent, "true"}

\* C2: for a Farcaster or Bluesky request that is not free tier, the price of
\* the estimate endpoint equals the price the payment middleware hands to the
\* gate, whatever the count lookup does (here even with every flag spelled
\* in lower case).
C2_EstimateEqualsGate ==
    (req.source \in {"farcaster", "bsky"} /\ BothPriced /\ PlainFlags)
        => est.price = gate.price

\* C3: for a Git request on a GitHub repository that is not free tier, the
\* price of /git/estimate equals the price the /git payment middleware hands
\* to the gate, for every combination of includeTree, includeContent,
\* patterns and maxFileSize (here even with every flag spelled in lower case).
C3_GitEstimateEqualsGate ==
    (req.source = "git" /\ parseGitUrl(req.url) = "github" /\ BothPriced /\ PlainFlags)
        => est.price = gate.price

\* C4: with a recipient address configured, the estimate endpoint reports
\* isFree = true exactly when the payment middleware lets the same query
\* through without consulting the gate, whatever the spelling of the flags
\* and the limit.
C4_FreeAgreement ==
    (req.source # "none" /\ req.env.X402_PAY_TO /\ est.status = 200 /\ gate.decision # "none")
        => (est.isFree <=> gate.decision = "next")

\* The ids of the units of a response, in order.
Ids(items) == [i \in 1..Len(items) |-> items[i].id]

\* An export of the feed of 3 pages of 50 units with limit=120 has answered.
Paginated120 ==
    /\ fpc = "done" /\ fres.status = 200
    /\ freq.source \in {"farcaster", "bsky"}
    /\ freq.feed = Feed150 /\ freq.limit = "120" /\ ~fetchAll(freq)

\* C5: from 3 pages of 50 units, limit=120 returns the 120 newest units,
\* newest first, and with sort order "oldest" those same 120 units reversed.
C5_SameItemsReversed ==
    Paginated120 =>
        Ids(fres.items) = IF freq.sortOrder = "oldest" THEN [i \in 1..120 |-> 121 - i]
                          ELSE [i \in 1..120 |-> i]

\* The limit an export request asks for, in halves: the limit of the query,
\* or the default of the source when the query gives none.
requestedLimit(r) ==
    IF Truthy(r.limit) THEN NumberOf(r.limit).h
    ELSE IF r.source = "rss" THEN 2 * 10 ELSE 2 * 50

\* The units of every page of a feed that pass the page filter.
RECURSIVE filteredUpTo(_, _)
filteredUpTo(r, p) ==
    IF p = 0 THEN <<>>
    ELSE filteredUpTo(r, p - 1) \o SelectSeq(r.feed[p], LAMBDA item : pageFilter(r, item))

\* C6: an export without "fetch all" returns at most the requested limit of
\* units (the default limit when none is given), for every limit the handler
\* accepts; with "fetch all" it returns every unit that passed the page
\* filter on every page.
C6_LengthWithinLimit ==
    (fpc = "done" /\ fres.status = 200 /\ (Truthy(freq.limit) => NumberOf(freq.limit).t = "num"))
        => IF fetchAll(freq)
           THEN IF freq.source = "rss" THEN Len(fres.items) = Len(freq.feed)
                ELSE Len(fres.items) = Len(filteredUpTo(freq, Len(freq.feed)))
           ELSE 2 * Len(fres.items) <= requestedLimit(freq)

\* The parent lookups of an export were made and one or more of them failed.
ParentFailed == \E h \in ParentRefs : lookups[h] = "throws"

\* C7: when a parent lookup fails, the lookups of the other parents are
\* still made, a parent that was found is attached to every returned unit
\* that refers to it, a unit whose parent failed is returned without a
\* parent, and the request succeeds.
C7_ParentFailureIsolated ==
    (fpc = "done" /\ ParentFailed) =>
        /\ fres.status = 200
        /\ \A k \in 1..Len(parentHashes) : lookups[parentHashes[k]] \in {"ok", "null", "throws"}
        /\ \A i \in 1..Len(fres.items) :
              LET unit == fres.items[i]
              IN  /\ (unit.parentHash # 0 /\ lookups[unit.parentHash] = "ok")
                        => unit.parentCast = unit.parentHash
                  /\ (unit.parentHash # 0 /\ lookups[unit.parentHash] # "ok")
                        => unit.parentCast = 0

\* C7 witness: of three distinct parents exactly one lookup failed and the
\* other two were found; the response carries a unit with its parent and the
\* unit whose parent failed without one.
C7_Witness ==
    /\ fpc = "done" /\ fres.status = 200
    /\ Len(parentHashes) = 3
    /\ Cardinality({h \in ParentRefs : lookups[h] = "throws"}) = 1
    /\ Cardinality({h \in ParentRefs : lookups[h] = "ok"}) = 2
    /\ \E i \in 1..Len(fres.items) : fres.items[i].parentCast # 0
    /\ \E i \in 1..Len(fres.items) :
          /\ fres.items[i].parentHash # 0
          /\ lookups[fres.items[i].parentHash] = "throws"
          /\ fres.items[i].parentCast = 0


\* C11: matchesPatterns(path, include, exclude) is true exactly when the
\* include list is absent or empty or the path matches one of its patterns,
\* and the path matches no exclude pattern; an exclude match overrides an
\* include match; with no patterns every path is included and filterTree
\* returns the tree unchanged.
C11_IncludeThenExclude ==
    (pin.source = "filter" /\ pout.done) =>
        /\ pout.matches =
             (/\ \/ ~pin.include.set
                 \/ pin.include.list = <<>>
                 \/ \E i \in 1..Len(pin.include.list) :
                        isMatch(pin.path, pin.include.list[i])
              /\ ~(/\ pin.exclude.set
                   /\ \E j \in 1..Len(pin.exclude.list) :
                          isMatch(pin.path, pin.exclude.list[j])))
        /\ (~nonEmpty(pin.include) /\ ~nonEmpty(pin.exclude)) =>
               (pout.matches /\ pout.filtered = pin.tree)
        /\ \A i \in 1..Len(pout.filtered) :
               \E j \in 1..Len(pin.tree) : pout.filtered[i] = pin.tree[j]

\* "src/a.ts" with include ["src/**"] and exclude ["**/*.ts"] was evaluated
\* and left out, from the path test and from the filtered tree.
C11_Witness ==
    /\ pin.source = "filter"
    /\ pout.done
    /\ pin.path = SrcATs
    /\ pin.include = Patterns(<<SrcAll>>)
    /\ pin.exclude = Patterns(<<AnyTs>>)
    /\ pin.tree = RepoTree
    /\ ~pout.matches
    /\ Len(pout.filtered) = 2


\* Lines i < j are neighbours in one directory listing: same prefix, and no
\* line of a shallower level between them.
SameListing(text, i, j) ==
    /\ i < j
    /\ text[i].prefix = text[j].prefix
    /\ \A k \in i..j : Len(text[k].prefix) >= Len(text[i].prefix)

IsDirLine(line) == line.rest = <<"/">>

\* C12: for every set of tree entries, also one holding a directory entry
\* and entries for files beneath it, formatHierarchicalTree gives the same
\* text for every ordering of the input array, and each level lists
\* directories before files, alphabetically within each group.
C12_OrderIndependent ==
    (pin.source = "tree" /\ pout.done) =>
        /\ pout.text = pout.text2
        /\ \A i, j \in 1..Len(pout.text) :
               SameListing(pout.text, i, j) =>
                   /\ IsDirLine(pout.text[j]) => IsDirLine(pout.text[i])
                   /\ (IsDirLine(pout.text[i]) = IsDirLine(pout.text[j])) =>
                          localeRank(pout.text[i].name) < localeRank(pout.text[j].name)


\* The entries of the fetched tree that pass the request's patterns.
FilteredTree == filterTree(ListedTree, pin.include, pin.exclude)

BodiesFromFilteredTree ==
    \A i \in 1..Len(pout.files) :
        \E j \in 1..Len(FilteredTree) : pout.files[i].file = FilteredTree[j]

\* C13: in every descriptor fetchGitHubRepo returns, each file with a body is
\* an entry of the tree after include/exclude filtering, and no body is
\* populated for a file larger than the caller's maxFileSize, for every
\* maxFileSize the handler accepts and for entries whose size is unknown.
C13_BodiesFilteredAndSmall ==
    (pin.source = "repo" /\ pout.done) =>
        /\ BodiesFromFilteredTree
        /\ (Truthy(pin.maxFileSize) /\ NumberOf(pin.maxFileSize).t = "num") =>
               \A i \in 1..Len(pout.files) :
                   2 * pout.files[i].content <= NumberOf(pin.maxFileSize).h


Social == freq.source \in {"farcaster", "bsky"}

Happened(event) == \E i \in 1..Len(trace) : trace[i] = event

\* C14: every export request ends with the status of its error class:
\* malformed input 400, identity not found 404, unexpected upstream failure
\* 500; an export for a username or handle that does not resolve is answered
\* with 404.  Stated for the requests that reach the handler.
C14_StatusMatchesErrorClass ==
    (Social /\ fpc = "done" /\ fres.status # 402) =>
        /\ validateExport(freq) = 400 => fres.status = 400
        /\ Happened("not found") => fres.status = 404
        /\ Happened("failed") => fres.status = 500

\* C15: a request with an invalid parameter (limit not numeric or not
\* positive, invalid FID, bad sortOrder, no identity selector) is rejected
\* before any upstream call is issued and before the payment gate is
\* consulted, whatever the other parameters, all=true included.
C15_RejectedBeforeUpstreamAndGate ==
    (Social /\ validateExport(freq) = 400) =>
        /\ \A i \in 1..Len(trace) :
               trace[i] \notin UpstreamCalls \cup {"paymentMiddleware"}
        /\ fpc = "done" => fres.status = 400

\* The upstream calls and the admissions among the first n events.
CallsIn(n) == Cardinality({i \in 1..n : trace[i] \in UpstreamCalls})

AdmissionsIn(n) == Cardinality({i \in 1..n : trace[i] = "waitForSlot"})

\* C16: every upstream call a source adapter issues on the export path is
\* preceded by its own waitForSlot admission, so the upstream calls never
\* exceed the recorded admissions.  Stated without a payment recipient, where
\* the middleware issues no call of its own.
C16_CallsWithinAdmissions ==
    ~freq.env.X402_PAY_TO =>
        /\ \A n \in 1..Len(trace) : CallsIn(n) <= AdmissionsIn(n)
        /\ AdmissionsIn(Len(trace)) <= Len(globalRequests)

\* C17: once a username has been resolved, every further resolution of the
\* same normalized name within the next 5 minutes, from the gate middleware
\* or the export path, returns the same id without a new upstream lookup.
\* The clock stands still during an export, so at most one lookup is made.
C17_OneLookupPerName ==
    (freq.source = "farcaster" /\ freq.user = "found") =>
        Cardinality({i \in 1..Len(trace) : trace[i] = "lookupUserByUsername"}) <= 1


\* C18: each example cost in the /pricing response for Farcaster, Bluesky and
\* RSS (50, 500 and 5,000 casts or posts; 10, 50 and 100 items) equals the
\* price string the source's cost function returns for that count with no
\* optional feature and the default base price $0.001.
C18_ExamplesMatchCostFunction ==
    (pin.source = "examples" /\ pout.done) => pout.listed = pout.price


\* A Git request for the tree of a GitHub repository holding more than
\* freeTierMaxFiles entries.
LargeTreeRequest ==
    /\ req.source = "git" /\ Truthy(req.url) /\ parseGitUrl(req.url) = "github"
    /\ req.includeTree = "true"
    /\ req.repo.t = "ok" /\ req.tree.t = "ok"
    /\ req.tree.length > GIT_PRICING.freeTierMaxFiles

\* C19: a Git export with includeTree is free only when the tree has at most
\* 10 files: for a repository with more than 10 files and a recipient
\* configured, the /git middleware consults the gate before the handler runs,
\* and /git/estimate reports isFree = false.
C19_LargeTreeIsPaid ==
    LargeTreeRequest =>
        /\ (gate # NoDecision /\ req.env.X402_PAY_TO) => gate.decision = "gate"
        /\ est # NoResponse => (est.status = 200 /\ ~est.isFree)


\* C20: parseRssFeed never fails on any input document: for an RSS2 document
\* it returns one item per <item> element, with feed.itemCount equal to the
\* number of items returned, and for a minimal document with one item
\* holding <title>, <link> and <pubDate> the item's title, link and pubDate
\* equal the literal input strings and feed.itemCount is 1.
C20_OneItemPerElement ==
    (pin.source = "feed" /\ pout.done) =>
        /\ Len(pout.items) = elementCount(pin.elements)
        /\ pout.feed.itemCount = Len(pout.items)
        /\ pin.elements = <<MinimalItem>> =>
               /\ pout.feed.itemCount = 1
               /\ pout.items[1].title = <<"Hello">>
               /\ pout.items[1].link = <<"https://example.com/1">>
               /\ pout.items[1].pubDate.value = <<"Mon, 01 Jan 2024 00:00:00 GMT">>


\* A step of the cache alone.
CacheStep ==
    /\ \A k \in CacheKeys :
          \* an entry leaves the map only in a read of its key that finds it
          \* expired and returns null
          /\ (cache[k].set /\ ~cache'[k].set) =>
                 /\ pout'.done /\ pout'.key = k /\ pout'.at = now
                 /\ pout'.value = Null /\ pout'.removed
                 /\ now > cache[k].expiry
          \* a write gives its key an expiry counted from now and leaves the
          \* other keys alone
          /\ (cache'[k].set /\ cache'[k] # cache[k]) =>
                 /\ cache'[k].expiry \in {now + ttl : ttl \in Ttls}
                 /\ cache'[k].data \in CachedData
                 /\ \A other \in CacheKeys \ {k} : cache'[other] = cache[other]
    \* a read after the expiry returns null and leaves no entry
    /\ (pout' # pout /\ cache[pout'.key].set /\ now > cache[pout'.key].expiry) =>
           pout'.value = Null /\ ~cache'[pout'.key].set
    \* a read that returns a value reads an entry that has not expired
    /\ (pout' # pout /\ pout'.value # Null) =>
           /\ cache[pout'.key].set /\ pout'.at <= cache[pout'.key].expiry
           /\ pout'.value = cache[pout'.key].data

\* C21: getCached never returns a value at a time later than the entry's
\* expiry: such a read returns null and removes the entry; an entry is
\* removed by no other action than a read that finds it expired, and
\* setCache for a key replaces the value and expiry of that key only.
C21_LazyExpiry == [][CacheStep]_vars

\* A read found an entry past its expiry and removed it, while the entry of
\* the other key, written with the longer ttl, is still there.
C21_Witness ==
    /\ pin.source = "cache"
    /\ pout.done /\ pout.removed /\ pout.value = Null /\ pout.key = "storage:2"
    /\ ~cache["storage:2"].set
    /\ cache["user:alice"].set /\ cache["user:alice"].data = Num(100)


\* The lookups that ask for admission in a step.
Asking == {h \in ParentRefs : lookups'[h] = "pending" /\ lookups[h] # "pending"}

ParentStep ==
    /\ Cardinality({h \in ParentRefs : lookups'[h] = "pending"}) <= 25
    /\ Asking # {} => Pending = {}
    /\ \A h \in Asking : lookups[h] = "none"

\* C22: during the parent resolution of one request at most 25 parent
\* lookups are in flight at any time, no lookup of the next batch asks the
\* rate limiter for admission before every lookup of the batch before it has
\* completed or failed, and each distinct parent is looked up at most once.
C22_BatchedParents == [][ParentStep]_vars

\* The second batch is running after a full first batch, in which lookups
\* failed and the parent that two replies refer to was looked up.
C22_Witness ==
    /\ fpc = "batch" /\ batchAt = 25 /\ Pending # {}
    /\ Len(parentHashes) = NumParents
    /\ lookups[101] \notin {"none", "pending"}
    /\ \E h \in ParentRefs : lookups[h] = "throws"


\* The pages that one call of fetchCasts or fetchBskyPosts has asked for, and
\* its admissions at the feed endpoint.
PagesAsked == Cardinality({i \in 1..Len(trace) : trace[i] = pageCall(freq)})

\* The first k pages of the upstream one after the other, each filtered.
RECURSIVE firstPages(_, _)
firstPages(r, k) ==
    IF k = 0 THEN <<>>
    ELSE firstPages(r, k - 1) \o SelectSeq(r.feed[k], LAMBDA item : pageFilter(r, item))

\* C23: within one paginate call a page is requested only after the page
\* before it has answered and a new admission has been recorded, each
\* request carries the cursor the page before returned, and the accumulated
\* sequence keeps the upstream order of the pages and of the items in them.
C23_PagesInOrder ==
    /\ (Social /\ fpc = "paging") =>
           /\ allCasts = firstPages(freq, PagesAsked)
           /\ cursor = (IF PagesAsked = 0 THEN 0 ELSE PagesAsked + 1)
           /\ Len(endpointRequests[feedEndpoint(freq)]) = PagesAsked
           /\ \A i \in 1..Len(trace) :
                 trace[i] = pageCall(freq) => i > 1 /\ trace[i - 1] = "waitForSlot"
    \* the loop has ended: what it accumulated, before the sort
    /\ (Social /\ (fpc = "batch" \/ fres.status = 200)) =>
           /\ Len(endpointRequests[feedEndpoint(freq)]) = PagesAsked
           /\ allCasts = IF freq.sortOrder = "oldest"
                         THEN Reverse(firstPages(freq, PagesAsked))
                         ELSE firstPages(freq, PagesAsked)

\* Two pages of 50 have been fetched and the loop goes on to the third.
C23_Witness ==
    /\ Social /\ fpc = "paging"
    /\ PagesAsked = 2 /\ cursor = 3
    /\ Len(allCasts) = 100
    /\ allCasts[51].id = 51


\* A caller that a step leaves suspended: the step found the global window
\* or the window of its endpoint at the ceiling, and its timer is due no
\* earlier than the instant the oldest timestamp of that window leaves it.
SuspendedAtCeiling(c) ==
    LET e == callers'[c].endpoint
        fullGlobal == InWindow(globalRequests, now) >= 450
        fullEndpoint == InWindow(endpointRequests[e], now) >= 250
        relevant == IF fullGlobal THEN globalRequests' ELSE endpointRequests'[e]
    IN  /\ fullGlobal \/ fullEndpoint
        /\ callers'[c].wakeAt - relevant[1] >= 60000
        /\ globalRequests' = cleanOldRequests(globalRequests, now)

\* A caller that a step admits: its timestamp is recorded once in the global
\* list and once in the list of its endpoint.
AdmittedOnce(c) ==
    LET e == callers'[c].endpoint
    IN  /\ globalRequests' = Append(cleanOldRequests(globalRequests, now), now)
        /\ endpointRequests'[e] = Append(cleanOldRequests(endpointRequests[e], now), now)

SlotStep ==
    \A c \in Callers :
        /\ callers'[c].pc \in {"idle", "admitted", "suspended"}
        /\ (callers'[c] # callers[c] /\ callers'[c].pc = "suspended") => SuspendedAtCeiling(c)
        /\ (callers'[c] # callers[c] /\ callers'[c].pc = "admitted") => AdmittedOnce(c)

\* C24: waitForSlot never rejects or fails: a caller is suspended only while
\* the global count or the count of its endpoint is at its ceiling, each
\* suspension lasts until the oldest relevant timestamp has left the
\* 60-second window, and with finitely many callers and advancing time every
\* caller is eventually admitted and recorded exactly once.
C24_EventuallyAdmitted ==
    /\ [][SlotStep]_vars
    /\ \A c \in Callers : (callers[c].pc = "suspended") ~> (callers[c].pc = "admitted")

\* The second of two calls found a window full, waited for its timer and has
\* been admitted a window later.
C24_Witness ==
    /\ calls = 2 /\ ticks = 0 /\ now > 60000
    /\ \E c \in Callers : callers[c].pc = "admitted"
    /\ globalRequests = <<now>>


\* C25: when include or exclude patterns are given, every tree entry that a
\* Git adapter returns, GitHub and GitLab alike, satisfies matchesPatterns
\* for those patterns, so no entry the filter rejects is in the rendered tree.
C25_TreeEntriesMatch ==
    (pin.source = "repo" /\ pout.done /\ (nonEmpty(pin.include) \/ nonEmpty(pin.exclude))) =>
        \A i \in 1..Len(pout.tree) :
            matchesPatterns(pout.tree[i].path, pin.include, pin.exclude)


\* The content requests made so far.
ContentFetches == Cardinality({i \in 1..Len(trace) : trace[i] = "fetch"})

\* The files of the queue up to the one asked for last whose request was
\* answered with a body.
Fetched(q, n) == SelectSeq(SubSeq(q, 1, n), LAMBDA f : f.path \notin pin.failing)

\* C27: with content inclusion fetchGitHubRepo issues at most 50 content
\* fetches, one at a time, each after its own rate-limiter admission; a
\* content fetch that fails or is answered with a status that is not ok
\* omits only that file, the remaining files are still fetched, and the
\* request succeeds.
C27_ContentLoop ==
    (pin.source = "contents" /\ pout.started) =>
        /\ ContentFetches <= 50
        /\ ContentFetches = pout.at
        /\ Len(endpointRequests["github:content"]) = ContentFetches
        /\ \A i \in 1..Len(trace) : trace[i] = "fetch" => i > 1 /\ trace[i - 1] = "waitForSlot"
        /\ LET answered == IF pout.inflight THEN pout.at - 1 ELSE pout.at
               got == Fetched(pout.queue, answered)
           IN  /\ Len(pout.files) = Len(got)
               /\ \A i \in 1..Len(got) : pout.files[i].file = got[i]
        /\ pout.done => /\ pout.status = 200
                        /\ pout.at = Len(pout.queue)
                        /\ lenientFlag(pin.includeContent) => pout.at = 50

\* The loop has ended after 50 requests on a tree of more text files, the
\* first and the last of the requests failed, and the other 48 files have
\* their bodies.
C27_Witness ==
    /\ pin.source = "contents" /\ pout.done /\ pout.status = 200
    /\ ContentFetches = 50
    /\ Len(pout.files) = 48
    /\ pout.files[48].file.path = FilePath(49)


\* The request is not free tier: it asks for more than the free tier of its
\* source gives (for Git: file bodies, or the tree of a repository with more
\* than freeTierMaxFiles files).
NotFreeTier ==
    CASE req.source \in {"farcaster", "bsky"} -> ~isFreeTier(gateParams(req))
      [] req.source = "rss" ->
            ~isRssFreeTier([itemCount |-> itemCountOf(req.limit), all |-> lenientFlag(req.all),
                            includeContent |-> lenientFlag(req.includeContent)])
      [] req.source = "git" ->
            \/ lenientFlag(req.includeContent)
            \/ /\ lenientFlag(req.includeTree) /\ req.tree.t = "ok"
               /\ req.tree.length > GIT_PRICING.freeTierMaxFiles
      [] OTHER -> FALSE

\* C26: with a recipient address configured, for every export request that
\* is not free tier no source adapter starts its fetch unless the payment
\* gate has answered proceed for the request, and when the gate answers
\* payment required the export handler does not run.
C26_FetchOnlyAfterProceed ==
    (req.source # "none" /\ req.env.X402_PAY_TO /\ NotFreeTier) =>
        /\ (\E a \in Adapters : Happened(a)) => Happened("proceed")
        /\ Happened("payment required") => ~Happened("handler")


\* The endpoints whose list a step appends the current instant to.
Stamped ==
    {e \in Endpoints :
        endpointRequests'[e] = Append(cleanOldRequests(endpointRequests[e], now), now)}

\* The endpoints whose list a step changes at all.
Touched == {e \in Endpoints : endpointRequests'[e] # endpointRequests[e]}

FrameStep ==
    \* an admission: one timestamp more in the global list and in one
    \* endpoint's list, every other endpoint's list as it was
    /\ globalRequests' # globalRequests =>
          \/ /\ globalRequests' = Append(cleanOldRequests(globalRequests, now), now)
             /\ Cardinality(Stamped) = 1 /\ Touched \subseteq Stamped
             /\ \E c \in Callers : callers'[c].pc = "admitted" /\ callers'[c].endpoint \in Stamped
          \* a suspension: the lists are pruned and nothing is appended
          \/ /\ globalRequests' = cleanOldRequests(globalRequests, now)
             /\ Stamped = {}
             /\ \A e \in Touched : endpointRequests'[e] = cleanOldRequests(endpointRequests[e], now)
    /\ globalRequests' = globalRequests =>
          \A e \in Touched : endpointRequests'[e] = cleanOldRequests(endpointRequests[e], now)
    /\ Cardinality(Touched) <= 1
    \* pruned at the same instant, no endpoint's window holds more than the
    \* global window
    /\ \A e \in Endpoints : InWindow(endpointRequests'[e], now') <= InWindow(globalRequests', now')

\* C28: on admission waitForSlot(endpoint) appends exactly one timestamp to
\* the global list and exactly one to the list of the endpoint named and
\* leaves the list of every other endpoint unchanged; a call that is
\* suspended appends nothing, so that after pruning at the same instant no
\* endpoint's window holds more timestamps than the global window.
C28_AdmissionFrame == [][FrameStep]_vars

\* After an admission on one endpoint at a later instant a call on the
\* other, full endpoint is suspended.
C28_Witness ==
    /\ now > 1 /\ now < 60000
    /\ Len(globalRequests) > 0 /\ globalRequests[Len(globalRequests)] = now
    /\ \E c \in Callers : callers[c].pc = "suspended"
    /\ \E c \in Callers : callers[c].pc = "admitted"
    /\ \E e \in LimiterEndpoints :
          Len(endpointRequests[e]) = ENDPOINT_LIMIT /\ endpointRequests[e][ENDPOINT_LIMIT] = 1


\* The /pricing requests in flight.
InFlight == {p \in Requests : promises[p] = "pending"}

\* The hooks that a step brings to their end.
Ending == {h \in Hooks : hooks[h].pc # "done" /\ hooks'[h].pc = "done"}

HookStep ==
    \* at most one request in flight
    /\ Cardinality({p \in Requests : promises'[p] = "pending"}) <= 1
    \* once a request has succeeded no request is issued
    /\ cachedPricing = "data" =>
          /\ cachedPricing' = "data"
          /\ \A p \in Requests : promises[p] = "none" => promises'[p] = "none"
    \* a hook ends with loading = false; with the cached data when the request
    \* it awaited succeeded or it found the data cached, with an error when
    \* the request it awaited failed
    /\ \A h \in Ending :
          /\ ~hooks'[h].loading
          /\ IF hooks[h].pc = "waiting" /\ promises[hooks[h].awaits] = "rejected"
             THEN hooks'[h].error /\ hooks'[h].pricing = NoPricing
             ELSE /\ hooks'[h].pricing = "data" /\ cachedPricing = "data"
                  /\ ~hooks'[h].error
    \* a failed request leaves no promise behind, and a hook whose effect runs
    \* with no data and no request in flight issues a new request
    /\ \A p \in Requests :
          (promises[p] = "pending" /\ promises'[p] = "rejected") => cachePromise' = 0
    /\ \A h \in Hooks :
          (hooks[h].pc = "rendered" /\ hooks'[h].pc = "waiting" /\ InFlight = {}) =>
              \E p \in Requests :
                  promises[p] = "none" /\ promises'[p] = "pending" /\ hooks'[h].awaits = p
    \* a waiting hook awaits the request in flight or one that has answered
    /\ \A h \in Hooks : hooks'[h].pc = "waiting" => promises'[hooks'[h].awaits] # "none"

\* C29: across any number of usePricing hooks mounted concurrently at most
\* one /pricing request is in flight; once a request has succeeded no
\* further request is ever issued and every hook that awaited it or runs
\* afterwards ends with loading = false and the cached data; when the
\* request fails every waiting hook ends with an error and loading = false,
\* and a hook mounted afterwards issues a new request.
C29_OneRequestShared == [][HookStep]_vars

\* The first request failed and its hook ended with an error; the hook
\* mounted next issued the second request, which succeeded, and the hook
\* mounted after that took the data from the cache.
C29_Witness ==
    /\ promises = [p \in Requests |-> IF p = 1 THEN "rejected"
                                      ELSE IF p = 2 THEN "fulfilled" ELSE "none"]
    /\ \A h \in Hooks : hooks[h].pc = "done" /\ ~hooks[h].loading
    /\ \E h \in Hooks : hooks[h].error /\ hooks[h].awaits = 1 /\ hooks[h].pricing = NoPricing
    /\ \E h \in Hooks : hooks[h].awaits = 2 /\ hooks[h].pricing = "data"
    /\ \E h \in Hooks : hooks[h].awaits = 0 /\ hooks[h].pricing = "data"


\* C30: for every RSS export request that the /rss payment middleware lets
\* through as free tier, with a recipient address configured, the response
\* contains at most 5 items, for every limit in the query string, negative,
\* zero, fractional and non-numeric ones included.
C30_FreeTierAtMostFive ==
    (/\ freq.source = "rss" /\ freq.env.X402_PAY_TO
     /\ gate.decision = "next" /\ fres.status = 200)
        => Len(fres.items) <= RSS_PRICING.freeTierMaxItems

====
